---------------------------- MODULE Spec2Model ----------------------------
(***************************************************************************)
(* A model of the AIMLAB VR data streamer: the role-based UDP nodes        *)
(* (discovery + performHandshake), the AIMLAB::NetworkManager peer         *)
(* registry with its four workers, the AimlabVR::VRDataStreamer streaming  *)
(* loop and the AimlabVR::DataPacket binary codec.                         *)
(*                                                                         *)
(* Each subsystem has its own specification over its own variables; the    *)
(* variables of the other subsystems keep their initial value.             *)
(***************************************************************************)
EXTENDS Integers, Sequences, FiniteSets, TLC

(***************************************************************************)
(* Part 1.  Role-based nodes: performHandshake                             *)
(* (udp_chat_node2.cpp, udp_chat_node1_v2.cpp, aimlab_vr_datastreamer.cpp; *)
(* the function is the same text in the three files).                      *)
(***************************************************************************)
VARIABLES
    hs_pc,              \* per node: position in performHandshake
    attempts,           \* per node: local `attempts`
    handshake_sent,     \* per node: local `handshake_sent`
    handshake_received, \* per node: local `handshake_received`
    chat_sock,          \* per node: datagrams queued on its bound chat socket
    hs_result,          \* per node: "none" until performHandshake returned
    hs_seen,            \* history: kinds of the datagrams recvfrom returned
    hs_sentCount,       \* history: HANDSHAKE datagrams sent by the call
    hs_readyCount,      \* history: READY datagrams sent by the call
    hs_injected         \* history: datagrams put on the wire by third parties

hsVars == <<hs_pc, attempts, handshake_sent, handshake_received, chat_sock,
            hs_result, hs_seen, hs_sentCount, hs_readyCount, hs_injected>>

\* State of the two AIMLAB::NetworkManager instances (Part 2).
VARIABLES
    discovery_socket,   \* per node: datagrams queued on the discovery socket
    data_socket,        \* per node: datagrams queued on the data socket
    peers,              \* per node: std::map peer_id -> PeerInfo
    incoming_messages,  \* per node: std::queue<Message>
    outgoing_messages,  \* per node: std::queue<Message>
    peers_mutex,        \* per node: owner of peers_mutex, or "free"
    outgoing_mutex,     \* per node: owner of outgoing_mutex, or "free"
    disc_pc,            \* per node: position of discovery_worker
    disc_msg,           \* per node: datagram handle_discovery_message works on
    recv_pc,            \* per node: position of receive_worker
    recv_msg,           \* per node: Message handle_incoming_message works on
    hb_pc,              \* per node: position of heartbeat_worker
    hb_todo,            \* per node: peers the sweep has still to visit
    hb_due,             \* per node: the heartbeat worker's sleep has elapsed
    now,                \* steady_clock, in milliseconds
    nm_broadcasts,      \* history: DISCOVER broadcasts sent per node
    nm_gotAck,          \* history: peers whose HANDSHAKE_ACK was received
    nm_gotStart,        \* history: peers whose HANDSHAKE_START was answered
    nm_timedout,        \* history: peers the sweep found timed out
    nm_injected,        \* history: datagrams sent by the remote peer
    nm_rediscovered,    \* history: known peers whose discovery datagram was handled
    nm_running,         \* per node: std::atomic<bool> running of the NetworkManager
    discovering,        \* per node: std::atomic<bool> discovering
    send_pc,            \* per node: position of send_worker
    stop_pc,            \* per node: position of a call of stop() ("idle": none)
    nm_stopSent,        \* history: the peers stop() sent a DISCONNECT to, in order
    nm_stopCalls        \* history: calls of stop() made

nmVars == <<discovery_socket, data_socket, peers, incoming_messages,
            outgoing_messages, peers_mutex, outgoing_mutex, disc_pc, disc_msg,
            recv_pc, recv_msg, hb_pc, hb_todo, hb_due, now, nm_broadcasts,
            nm_gotAck, nm_gotStart, nm_timedout, nm_injected, nm_rediscovered,
            nm_running, discovering, send_pc, stop_pc, nm_stopSent, nm_stopCalls>>

\* State of the AimlabVR::VRDataStreamer and its streaming thread (Part 3).
VARIABLES
    isStreaming,        \* Impl::isStreaming
    shouldStop,         \* Impl::shouldStop
    totalPacketsSent,   \* Impl::totalPacketsSent
    sequenceNumber,     \* Impl::sequenceNumber, uint32_t as <<high, low>> 16-bit halves
    errorCallback,      \* Impl::errorCallback is set
    dataSentCallback,   \* Impl::dataSentCallback is set
    st_pc,              \* position of streamingThreadFunc ("none": no thread)
    st_log,             \* history: the packets built by sendFrame in this session
    st_errCalls,        \* history: invocations of errorCallback
    st_sentCalls,       \* history: packets given to dataSentCallback in this session
    st_stopCalled,      \* history: stopStreaming was called in this session
    st_fresh,           \* history: the session's startStreaming is part of the run
    st_frames,          \* history: sendFrame calls made
    st_sessions         \* history: startStreaming calls made

streamVars == <<isStreaming, shouldStop, totalPacketsSent, sequenceNumber,
                errorCallback, dataSentCallback, st_pc, st_log, st_errCalls,
                st_sentCalls, st_stopCalled, st_fresh, st_frames, st_sessions>>

\* State of one AimlabVR::DataPacket serialize / deserialize exchange (Part 4).
VARIABLES
    cd_pc,              \* "new", "serialized", "done" ("off": no exchange)
    m_packet,           \* the packet that is serialized
    cd_data,            \* the std::vector<uint8_t> handed to deserialize
    cd_cut,             \* what happened to the buffer on the way
    cd_result           \* what deserialize returned and left in the packet

codecVars == <<cd_pc, m_packet, cd_data, cd_cut, cd_result>>

\* State of one role-based node process outside performHandshake (Part 5):
\* main, discoveryThread, the receive thread and the keep-alive sender.
VARIABLES
    program,            \* which of the three role-based programs runs
    running,            \* std::atomic<bool> running
    peer_discovered,    \* std::atomic<bool> peer_discovered
    peer_address,       \* std::string peer_address
    peer_port,          \* int peer_port
    handshake_complete, \* std::atomic<bool> handshake_complete
    rb_main,            \* position of main
    rb_disc,            \* position of discoveryThread
    discover_sock,      \* datagrams queued on the bound discovery socket
    bcast_due,          \* 2 s have gone by since last_broadcast
    ka_due,             \* 5 s have gone by since last_keepalive
    rb_send,            \* position of the keep-alive sender's loop
    rb_iter,            \* flips at every iteration of discoveryThread's loop
    rb_handled,         \* history: the datagram that iteration's recvfrom returned
    rb_out              \* history: the datagrams the last step of the node sent

roleVars == <<program, running, peer_discovered, peer_address, peer_port,
              handshake_complete, rb_main, rb_disc, discover_sock, bcast_due,
              ka_due, rb_send, rb_iter, rb_handled, rb_out>>

\* State of the data file of aimlab_vr_datastreamer (Part 6).
VARIABLES
    file_open,          \* std::atomic<bool> file_open
    data_count,         \* std::atomic<int> data_count
    file_count          \* std::atomic<int> file_count

cmdVars == <<file_open, data_count, file_count>>

\* What initialize leaves in the VRDataStreamer, and what its calls returned
\* (Part 3, application side).
VARIABLES
    vrDevice,           \* Impl::vrDevice is not null
    networkManager,     \* Impl::networkManager is not null
    status,             \* NetworkManager::Impl::status of that manager
    m_config,           \* Impl::config: m_config.updateRate, in Hz
    init_ret,           \* history: what the last initialize returned
    init_succeeded,     \* history: some initialize has returned true
    start_ret,          \* history: what the last startStreaming returned
    starts_ok,          \* history: startStreaming calls that returned true
    stop_calls,         \* history: stopStreaming calls made
    app_pc              \* the application thread: "idle", or the call it is held in

callVars == <<vrDevice, networkManager, status, m_config, init_ret, init_succeeded,
              start_ret, starts_ok, stop_calls, app_pc>>

\* State of one AimlabVR::NetworkManager with its receive thread (Part 7).
VARIABLES
    isReceiving,        \* Impl::isReceiving
    rx_status,          \* Impl::status of this manager
    rx_pc,              \* position of receiveThreadFunc ("none": no thread)
    rx_queue,           \* datagrams waiting on the socket
    rx_waited,          \* timeouts' worth of time spent in the current receive
    rx_app,             \* the calling thread: "idle", in a join, or "gone"
    rx_starts,          \* history: startReceiving calls made
    rx_sent,            \* history: datagrams the peer has sent
    rx_delivered        \* history: receiveCallback invocations

rxVars == <<isReceiving, rx_status, rx_pc, rx_queue, rx_waited, rx_app,
            rx_starts, rx_sent, rx_delivered>>

\* State of the Logger singleton and of the thread that calls it (Part 8).
VARIABLES
    m_mutex,            \* Logger::m_mutex: "free" or "held"
    m_initialized,      \* Logger::m_initialized
    m_minLevel,         \* Logger::m_minLevel, as the enumerator's value
    lg_pc,              \* the caller: "idle", or how its call ended otherwise
    lg_inits,           \* history: Logger::initialize calls made
    lg_emitted          \* history: messages written by Logger::log

logVars == <<m_mutex, m_initialized, m_minLevel, lg_pc, lg_inits, lg_emitted>>

\* The clock and the frame timing of streamingThreadFunc (Part 9).
VARIABLES
    clock,              \* high_resolution_clock::now(), in ticks
    nextFrameTime,      \* streamingThreadFunc's nextFrameTime, in ticks
    startTime,          \* the clock when the thread began
    tm_pc,              \* position of the timed thread ("none": not modelled)
    tm_left,            \* ticks the running sendFrame still takes
    tm_cost,            \* history: ticks the last sendFrame begun takes in all
    tm_behind           \* history: the last deadline comparison took the reset

timeVars == <<clock, nextFrameTime, startTime, tm_pc, tm_left, tm_cost,
              tm_behind>>

\* The callers of VRDataStreamer::sendFrame, statement by statement (Part 10).
VARIABLES
    sf_pc,              \* per caller: position inside sendFrame
    sf_reg,             \* per caller: the value it has loaded
    sf_seq,             \* per caller: the sequence number of its packet
    sf_calls            \* history: sendFrame calls begun

raceVars == <<sf_pc, sf_reg, sf_seq, sf_calls>>

\* Datagrams lost between two NetworkManager instances (Part 2).
VARIABLES
    nm_lost             \* history: handshake datagrams the network has dropped

lossVars == <<nm_lost>>

\* The peer of a role-based node whose discovery runs in broadcast-only mode
\* (Part 12).
VARIABLES
    so_peerSock,        \* DISCOVER datagrams queued on the peer's discovery socket
    so_peerFound,       \* the peer's own peer_discovered
    so_sent,            \* history: DISCOVER broadcasts the node has made
    so_peerOut          \* history: the datagrams the peer has sent, and where to

soVars == <<so_peerSock, so_peerFound, so_sent, so_peerOut>>

\* The variables of the parts after Part 5.
extraVars == <<cmdVars, callVars, rxVars, logVars, timeVars, raceVars, lossVars,
              soVars>>

\* The variables of Parts 1 to 5.
baseVars == <<hsVars, nmVars, streamVars, codecVars, roleVars>>

\* What the receive thread and its callers leave alone.
notRx == <<baseVars, cmdVars, callVars, logVars, timeVars, raceVars, lossVars,
          soVars>>

\* What the Logger and its caller leave alone.
notLog == <<baseVars, cmdVars, callVars, rxVars, timeVars, raceVars, lossVars,
           soVars>>

\* What the timed streaming thread leaves alone.
notTime == <<hsVars, nmVars, codecVars, roleVars, cmdVars, callVars, rxVars,
             logVars, raceVars, lossVars, soVars>>

\* What the callers of sendFrame leave alone.
notRace == <<hsVars, nmVars, codecVars, roleVars, cmdVars, callVars, rxVars,
             logVars, timeVars, lossVars, soVars>>

\* What the loss of a datagram leaves alone.
notLoss == <<hsVars, streamVars, codecVars, roleVars, cmdVars, callVars, rxVars,
             logVars, timeVars, raceVars, soVars>>

\* What broadcast-only discovery and the peer's discovery leave alone.
notSendOnly == <<hsVars, nmVars, streamVars, codecVars, cmdVars, callVars,
                 rxVars, logVars, timeVars, raceVars, lossVars>>

\* What the calls of the application on the VRDataStreamer leave alone.
notCalls == <<hsVars, nmVars, codecVars, roleVars, cmdVars, rxVars, logVars,
              timeVars, raceVars, lossVars, soVars>>

\* What the actions of one part leave alone: the other parts' variables.
notHs == <<nmVars, streamVars, codecVars, roleVars, extraVars>>

notNm == <<hsVars, streamVars, codecVars, roleVars, extraVars>>

notStream == <<hsVars, nmVars, codecVars, roleVars, extraVars>>

notCodec == <<hsVars, nmVars, streamVars, roleVars, extraVars>>

notRole == <<nmVars, streamVars, codecVars, extraVars>>

notCmd == <<nmVars, streamVars, codecVars, callVars, rxVars, logVars, timeVars,
            raceVars, lossVars, soVars>>

\* The two role-based nodes (NODE1 / NODE2).
HsNodes == {1, 2}

HsPeer(n) == 3 - n

\* Retry budget of performHandshake: while (attempts < 10 && ...).
MaxAttempts == 10

\* Datagrams a third party may put on a node's chat socket.
MaxInject == 3

\* Datagrams queued unread on the chat socket in the single-node environment.
MaxSockQueue == 2

MSG_HANDSHAKE == "HANDSHAKE"

MSG_READY == "READY"

MSG_CHAT == "CHAT"

MSG_KEEPALIVE == "KEEPALIVE"

HsKinds == {MSG_HANDSHAKE, MSG_READY, MSG_KEEPALIVE, MSG_CHAT}

\* Sender addresses: the discovered peer, or some other host.
HsSenders == {"peer", "other"}

\* received.find(MSG_X) == 0: the datagram starts with the type word.
StartsWith(dgram, word) == dgram.kind = word

\* while (attempts < 10 && (!handshake_sent || !handshake_received))
HsLoopAgainMutant(a, sent, rcvd) == a < MaxAttempts /\ (~sent /\ ~rcvd)

HsLoopAgain(a, sent, rcvd) == a < MaxAttempts /\ (~sent \/ ~rcvd)

HsReturnValueMutant(sent, rcvd) == sent \/ rcvd

\* if (handshake_sent && handshake_received) return true; ... return false;
HsReturnValue(sent, rcvd) == sent /\ rcvd

\* The top of one loop iteration: if (!handshake_sent) sendto(HANDSHAKE).
HsSendStep(n) ==
    /\ hs_pc[n] = "send"
    /\ IF ~handshake_sent[n]
          THEN /\ chat_sock' = [chat_sock EXCEPT ![HsPeer(n)] =
                        Append(@, [kind |-> MSG_HANDSHAKE, from |-> "peer"])]
               /\ hs_sentCount' = [hs_sentCount EXCEPT ![n] = @ + 1]
          ELSE UNCHANGED <<chat_sock, hs_sentCount>>
    /\ hs_pc' = [hs_pc EXCEPT ![n] = "recv"]
    /\ UNCHANGED <<attempts, handshake_sent, handshake_received, hs_result,
                   hs_seen, hs_readyCount, hs_injected>>
    /\ UNCHANGED notHs

\* The rest of the iteration: the non-blocking recvfrom, the reply, attempts++,
\* and the loop test; on loop exit the return value.
HsRecvStep(n) ==
    /\ hs_pc[n] = "recv"
    /\ LET got   == chat_sock[n] # <<>>
           d     == Head(chat_sock[n])
           isHs  == got /\ StartsWith(d, MSG_HANDSHAKE)
           isRdy == got /\ ~isHs /\ StartsWith(d, MSG_READY)
           sent2 == handshake_sent[n] \/ isRdy
           rcvd2 == handshake_received[n] \/ isHs
           a2    == attempts[n] + 1
           rest  == IF got THEN Tail(chat_sock[n]) ELSE chat_sock[n]
       IN  /\ chat_sock' =
                 IF isHs
                    THEN [chat_sock EXCEPT
                            ![n] = rest,
                            ![HsPeer(n)] = Append(@, [kind |-> MSG_READY,
                                                      from |-> "peer"])]
                    ELSE [chat_sock EXCEPT ![n] = rest]
           /\ hs_readyCount' = [hs_readyCount EXCEPT ![n] = IF isHs THEN @ + 1 ELSE @]
           /\ hs_seen' = [hs_seen EXCEPT ![n] = IF got THEN @ \cup {d.kind} ELSE @]
           /\ handshake_sent' = [handshake_sent EXCEPT ![n] = sent2]
           /\ handshake_received' = [handshake_received EXCEPT ![n] = rcvd2]
           /\ attempts' = [attempts EXCEPT ![n] = a2]
           /\ IF HsLoopAgain(a2, sent2, rcvd2)
                 THEN /\ hs_pc' = [hs_pc EXCEPT ![n] = "send"]
                      /\ UNCHANGED hs_result
                 ELSE /\ hs_pc' = [hs_pc EXCEPT ![n] = "done"]
                      /\ hs_result' = [hs_result EXCEPT ![n] =
                            IF HsReturnValue(sent2, rcvd2) THEN "true" ELSE "false"]
    /\ UNCHANGED <<hs_sentCount, hs_injected>>
    /\ UNCHANGED notHs

\* A datagram from anywhere arrives on node n's chat socket (single-node
\* environment: the peer's side of the wire is driven by hand).
HsInject(n) ==
    /\ hs_pc[n] # "done"
    /\ hs_injected < MaxInject
    /\ Len(chat_sock[n]) < MaxSockQueue
    /\ \E k \in HsKinds, s \in HsSenders :
          chat_sock' = [chat_sock EXCEPT ![n] = Append(@, [kind |-> k, from |-> s])]
    /\ hs_injected' = hs_injected + 1
    /\ UNCHANGED <<hs_pc, attempts, handshake_sent, handshake_received,
                   hs_result, hs_seen, hs_sentCount, hs_readyCount>>
    /\ UNCHANGED notHs

HsInitFor(started) ==
    /\ hs_pc = [n \in HsNodes |-> IF n \in started THEN "send" ELSE "off"]
    /\ attempts = [n \in HsNodes |-> 0]
    /\ handshake_sent = [n \in HsNodes |-> FALSE]
    /\ handshake_received = [n \in HsNodes |-> FALSE]
    /\ chat_sock = [n \in HsNodes |-> <<>>]
    /\ hs_result = [n \in HsNodes |-> "none"]
    /\ hs_seen = [n \in HsNodes |-> {}]
    /\ hs_sentCount = [n \in HsNodes |-> 0]
    /\ hs_readyCount = [n \in HsNodes |-> 0]
    /\ hs_injected = 0

(***************************************************************************)
(* Part 2.  AIMLAB::NetworkManager (aimlab_network_cpp.cpp): two instances *)
(* on two hosts, each with its discovery, receive, send and heartbeat      *)
(* worker, its peers map and its two mutexes peers_mutex / outgoing_mutex. *)
(* A step runs a worker up to the point where it needs a mutex it does not *)
(* hold yet.                                                               *)
(***************************************************************************)
\* The two hosts; host n has IP address n.
NmNodes == {1, 2}

DISCOVERY_PORT == 45000

DEFAULT_DATA_PORT == 45001

HEARTBEAT_INTERVAL_MS == 5000

CONNECTION_TIMEOUT_MS == 15000

\* The clock stops at MaxTicks heartbeat intervals.
MaxTicks == 4

\* DISCOVER broadcasts per discovery worker.
MaxBroadcasts == 1

\* Datagrams the remote peer sends to a node whose own manager is not part
\* of the run.
MaxEnvMsgs == 3

\* std::string peer_id = ip + ":" + std::to_string(port)
PeerId(ip, port) == <<ip, port>>

NoMsg == [type |-> "NONE"]

\* PeerInfo(ip, port): last_heartbeat(now()), is_connected(false)
PeerInfo(ip, port) ==
    [ip_address |-> ip, port |-> port, last_heartbeat |-> now,
     is_connected |-> FALSE]

is_timeout_Mutant(info) == now - info.last_heartbeat >= CONNECTION_TIMEOUT_MS

\* PeerInfo::is_timeout
is_timeout(info) == now - info.last_heartbeat > CONNECTION_TIMEOUT_MS

\* PeerInfo::update_heartbeat
update_heartbeat(info) == [info EXCEPT !.last_heartbeat = now]

\* get_connected_peers: the peers reported as connected
get_connected_peers(n) ==
    {id \in DOMAIN peers[n] :
        peers[n][id].is_connected /\ ~is_timeout(peers[n][id])}

\* mark_peer_connected's effect on the map (under peers_mutex)
MarkConnected(map, id) ==
    IF id \in DOMAIN map
       THEN [map EXCEPT ![id] = update_heartbeat([@ EXCEPT !.is_connected = TRUE])]
       ELSE map

IsNewPeerMutant(map, id) == TRUE

\* peers.find(peer_id) == peers.end()
IsNewPeer(map, id) == id \notin DOMAIN map

MapEraseMutant(map, id) == [k \in {} |-> map[k]]

\* std::map::erase(peer_id)
MapErase(map, id) == [k \in DOMAIN map \ {id} |-> map[k]]

\* peers[peer_id] = PeerInfo(...)
MapPut(map, id, info) == [k \in DOMAIN map \cup {id} |-> IF k = id THEN info ELSE map[k]]

\* The least key: std::map iterates in key order.
MinKey(S) == CHOOSE k \in S : \A j \in S : k[1] <= j[1]

discUnch == <<discovery_socket, disc_pc, disc_msg, nm_broadcasts, nm_rediscovered>>
recvUnch == <<data_socket, recv_pc, recv_msg, nm_gotAck, nm_gotStart, incoming_messages>>
hbUnch   == <<hb_pc, hb_todo, hb_due, nm_timedout>>
stopUnch == <<nm_running, discovering, send_pc, stop_pc, nm_stopSent, nm_stopCalls>>

----------------------------------------------------------------------------
\* discovery_worker, top of the while loop (after the sleep that follows an
\* empty receive_from): discovery_socket.broadcast(DISCOVER).  The datagram
\* reaches every socket bound to DISCOVERY_PORT, the sender's own included.
DiscBroadcast(n) ==
    /\ \/ disc_pc[n] = "broadcast"
       \/ disc_pc[n] = "poll" /\ discovery_socket[n] = <<>>
    /\ discovering[n]
    /\ nm_broadcasts[n] < MaxBroadcasts
    /\ discovery_socket' =
          [m \in NmNodes |->
              IF disc_pc[m] # "off"
                 THEN Append(discovery_socket[m],
                        [type |-> "DISCOVER", port |-> DEFAULT_DATA_PORT, from |-> n])
                 ELSE discovery_socket[m]]
    /\ nm_broadcasts' = [nm_broadcasts EXCEPT ![n] = @ + 1]
    /\ disc_pc' = [disc_pc EXCEPT ![n] = "poll"]
    /\ UNCHANGED <<peers, outgoing_messages, peers_mutex, outgoing_mutex,
                   disc_msg, now, nm_injected, nm_rediscovered>>
    /\ UNCHANGED <<recvUnch, hbUnch>>
    /\ UNCHANGED stopUnch
    /\ UNCHANGED notNm

\* receive_from returned a datagram: handle_discovery_message, from
\* lock_guard(peers_mutex) up to the call of initiate_handshake (which is
\* entered with peers_mutex still held).
handle_discovery_message(n) ==
    /\ disc_pc[n] = "poll"
    /\ discovery_socket[n] # <<>>
    /\ peers_mutex[n] = "free"
    /\ LET d  == Head(discovery_socket[n])
           id == PeerId(d.from, d.port)
           rest == [discovery_socket EXCEPT ![n] = Tail(@)]
       IN  IF IsNewPeer(peers[n], id)
              THEN /\ peers' = [peers EXCEPT ![n] = MapPut(@, id, PeerInfo(d.from, d.port))]
                   /\ nm_timedout' = [nm_timedout EXCEPT ![n] = @ \ {id}]
                   /\ UNCHANGED nm_rediscovered
                   /\ IF d.type = "DISCOVER"
                         THEN /\ discovery_socket' = [rest EXCEPT ![d.from] =
                                    IF disc_pc[d.from] # "off"
                                       THEN Append(@, [type |-> "ACKNOWLEDGE",
                                                       port |-> DEFAULT_DATA_PORT,
                                                       from |-> n])
                                       ELSE @]
                              /\ peers_mutex' = [peers_mutex EXCEPT ![n] = "disc"]
                              /\ disc_pc' = [disc_pc EXCEPT ![n] = "initiate"]
                              /\ disc_msg' = [disc_msg EXCEPT ![n] = d]
                         ELSE /\ discovery_socket' = rest
                              /\ UNCHANGED <<peers_mutex, disc_pc, disc_msg>>
              ELSE /\ discovery_socket' = rest
                   /\ nm_rediscovered' = [nm_rediscovered EXCEPT ![n] = @ \cup {id}]
                   /\ UNCHANGED <<peers, nm_timedout, peers_mutex, disc_pc, disc_msg>>
    /\ UNCHANGED <<outgoing_messages, outgoing_mutex, now, nm_broadcasts,
                   nm_injected, hb_pc, hb_todo, hb_due>>
    /\ UNCHANGED recvUnch
    /\ UNCHANGED stopUnch
    /\ UNCHANGED notNm

\* initiate_handshake: lock_guard(outgoing_mutex); push(HANDSHAKE_START); then
\* both guards are released as handle_discovery_message returns.
initiate_handshake(n) ==
    /\ disc_pc[n] = "initiate"
    /\ outgoing_mutex[n] = "free"
    /\ outgoing_messages' = [outgoing_messages EXCEPT ![n] =
          Append(@, [type |-> "HANDSHAKE_START",
                     to |-> PeerId(disc_msg[n].from, disc_msg[n].port)])]
    /\ peers_mutex' = [peers_mutex EXCEPT ![n] = "free"]
    /\ disc_pc' = [disc_pc EXCEPT ![n] = "poll"]
    /\ disc_msg' = [disc_msg EXCEPT ![n] = NoMsg]
    /\ UNCHANGED <<discovery_socket, peers, outgoing_mutex, now,
                   nm_broadcasts, nm_injected, nm_rediscovered>>
    /\ UNCHANGED <<recvUnch, hbUnch>>
    /\ UNCHANGED stopUnch
    /\ UNCHANGED notNm

----------------------------------------------------------------------------
\* receive_worker: data_socket.receive_from returned a datagram (the Message
\* gets the sender's address); handle_incoming_message, first block: under
\* peers_mutex, update_heartbeat of the sender's record if there is one.
\* Types that take no further lock (DATA, HEARTBEAT, default) are dispatched
\* in the same step.
HandleIncoming(n, msg) ==
    LET id == msg.from
    IN  /\ peers' = [peers EXCEPT ![n] =
              IF id \in DOMAIN @ THEN [@ EXCEPT ![id] = update_heartbeat(@)] ELSE @]
        /\ IF msg.type \in {"HANDSHAKE_START", "HANDSHAKE_ACK",
                            "HANDSHAKE_COMPLETE", "DISCONNECT"}
              THEN /\ recv_pc' = [recv_pc EXCEPT ![n] = "dispatch"]
                   /\ recv_msg' = [recv_msg EXCEPT ![n] = msg]
                   /\ UNCHANGED incoming_messages
              ELSE /\ incoming_messages' = [incoming_messages EXCEPT ![n] =
                         IF msg.type = "DATA" THEN Append(@, msg) ELSE @]
                   /\ UNCHANGED <<recv_pc, recv_msg>>

\* The same for a datagram whose bytes Message::deserialize has already
\* turned into a Message of a MessageType.
handle_incoming_message(n) ==
    /\ recv_pc[n] = "poll"
    /\ nm_running[n]
    /\ data_socket[n] # <<>>
    /\ peers_mutex[n] = "free"
    /\ data_socket' = [data_socket EXCEPT ![n] = Tail(@)]
    /\ HandleIncoming(n, Head(data_socket[n]))
    /\ UNCHANGED <<outgoing_messages, peers_mutex, outgoing_mutex,
                   now, nm_injected, nm_gotAck, nm_gotStart>>
    /\ UNCHANGED <<discUnch, hbUnch>>
    /\ UNCHANGED stopUnch
    /\ UNCHANGED notNm

\* handle_handshake_start: push(HANDSHAKE_ACK) under outgoing_mutex.
handle_handshake_start(n) ==
    /\ recv_pc[n] = "dispatch"
    /\ recv_msg[n].type = "HANDSHAKE_START"
    /\ outgoing_mutex[n] = "free"
    /\ outgoing_messages' = [outgoing_messages EXCEPT ![n] =
          Append(@, [type |-> "HANDSHAKE_ACK", to |-> recv_msg[n].from])]
    /\ nm_gotStart' = [nm_gotStart EXCEPT ![n] = @ \cup {recv_msg[n].from}]
    /\ recv_pc' = [recv_pc EXCEPT ![n] = "poll"]
    /\ recv_msg' = [recv_msg EXCEPT ![n] = NoMsg]
    /\ UNCHANGED <<data_socket, peers, incoming_messages, peers_mutex,
                   outgoing_mutex, now, nm_injected, nm_gotAck>>
    /\ UNCHANGED <<discUnch, hbUnch>>
    /\ UNCHANGED stopUnch
    /\ UNCHANGED notNm

\* handle_handshake_ack, first half: lock_guard(outgoing_mutex);
\* push(HANDSHAKE_COMPLETE); the guard stays held over mark_peer_connected.
handle_handshake_ack(n) ==
    /\ recv_pc[n] = "dispatch"
    /\ recv_msg[n].type = "HANDSHAKE_ACK"
    /\ outgoing_mutex[n] = "free"
    /\ outgoing_mutex' = [outgoing_mutex EXCEPT ![n] = "recv"]
    /\ outgoing_messages' = [outgoing_messages EXCEPT ![n] =
          Append(@, [type |-> "HANDSHAKE_COMPLETE", to |-> recv_msg[n].from])]
    /\ nm_gotAck' = [nm_gotAck EXCEPT ![n] = @ \cup {recv_msg[n].from}]
    /\ recv_pc' = [recv_pc EXCEPT ![n] = "mark"]
    /\ UNCHANGED <<data_socket, peers, incoming_messages, peers_mutex, now,
                   nm_injected, nm_gotStart, recv_msg>>
    /\ UNCHANGED <<discUnch, hbUnch>>
    /\ UNCHANGED stopUnch
    /\ UNCHANGED notNm

\* mark_peer_connected: under peers_mutex; called from handle_handshake_ack
\* (outgoing_mutex held, released on return) or handle_handshake_complete.
mark_peer_connected(n) ==
    /\ \/ recv_pc[n] = "mark"
       \/ recv_pc[n] = "dispatch" /\ recv_msg[n].type = "HANDSHAKE_COMPLETE"
    /\ peers_mutex[n] = "free"
    /\ peers' = [peers EXCEPT ![n] = MarkConnected(@, recv_msg[n].from)]
    /\ nm_timedout' = [nm_timedout EXCEPT ![n] =
          IF recv_msg[n].from \in DOMAIN peers[n] THEN @ \ {recv_msg[n].from} ELSE @]
    /\ outgoing_mutex' = [outgoing_mutex EXCEPT ![n] =
          IF recv_pc[n] = "mark" THEN "free" ELSE @]
    /\ recv_pc' = [recv_pc EXCEPT ![n] = "poll"]
    /\ recv_msg' = [recv_msg EXCEPT ![n] = NoMsg]
    /\ UNCHANGED <<data_socket, incoming_messages, outgoing_messages,
                   peers_mutex, now, nm_injected, nm_gotAck, nm_gotStart>>
    /\ UNCHANGED <<discUnch, hb_pc, hb_todo, hb_due>>
    /\ UNCHANGED stopUnch
    /\ UNCHANGED notNm

\* handle_disconnect: peers.erase(peer_id) under peers_mutex.
handle_disconnect(n) ==
    /\ recv_pc[n] = "dispatch"
    /\ recv_msg[n].type = "DISCONNECT"
    /\ peers_mutex[n] = "free"
    /\ peers' = [peers EXCEPT ![n] = MapErase(@, recv_msg[n].from)]
    /\ recv_pc' = [recv_pc EXCEPT ![n] = "poll"]
    /\ recv_msg' = [recv_msg EXCEPT ![n] = NoMsg]
    /\ UNCHANGED <<data_socket, incoming_messages, outgoing_messages,
                   peers_mutex, outgoing_mutex, now, nm_injected, nm_gotAck,
                   nm_gotStart>>
    /\ UNCHANGED <<discUnch, hbUnch>>
    /\ UNCHANGED stopUnch
    /\ UNCHANGED notNm

----------------------------------------------------------------------------
\* send_worker: under outgoing_mutex pop the front message, then send it from
\* the data socket (source port DEFAULT_DATA_PORT) to msg.sender_ip:sender_port.
\* A datagram to a port nobody has bound is dropped by the destination host.
send_worker(n) ==
    /\ send_pc[n] = "run"
    /\ outgoing_mutex[n] = "free"
    /\ outgoing_messages[n] # <<>>
    /\ LET msg == Head(outgoing_messages[n])
           dst == msg.to[1]
       IN  /\ outgoing_messages' = [outgoing_messages EXCEPT ![n] = Tail(@)]
           /\ data_socket' =
                 IF dst \in NmNodes /\ msg.to[2] = DEFAULT_DATA_PORT
                       /\ recv_pc[dst] # "off"
                    THEN [data_socket EXCEPT ![dst] =
                            Append(@, [type |-> msg.type,
                                       from |-> PeerId(n, DEFAULT_DATA_PORT)])]
                    ELSE data_socket
    /\ UNCHANGED <<peers, incoming_messages, peers_mutex, outgoing_mutex, now,
                   nm_injected>>
    /\ UNCHANGED <<discUnch, hbUnch>>
    /\ UNCHANGED <<recv_pc, recv_msg, nm_gotAck, nm_gotStart>>
    /\ UNCHANGED stopUnch
    /\ UNCHANGED notNm

----------------------------------------------------------------------------
\* The for loop of heartbeat_worker over the peers still to visit (in key
\* order, peers_mutex held), run up to the first connected peer that has not
\* timed out: for that one the worker must take outgoing_mutex.  A connected
\* peer that has timed out is marked not connected.
RECURSIVE SweepRun(_, _, _)
SweepRun(map, todo, out) ==
    IF todo = {} THEN [map |-> map, todo |-> {}, out |-> out]
    ELSE LET id == MinKey(todo)
         IN  IF map[id].is_connected
                THEN IF is_timeout(map[id])
                        THEN SweepRun([map EXCEPT ![id].is_connected = FALSE],
                                      todo \ {id}, out \cup {id})
                        ELSE [map |-> map, todo |-> todo, out |-> out]
                ELSE SweepRun(map, todo \ {id}, out)

\* The effect of the sweep going on from `todo`: either it stops in front of a
\* push (peers_mutex stays held) or it ends and releases peers_mutex.
SweepOn(n, todo) ==
    LET r == SweepRun(peers[n], todo, {})
    IN  /\ peers' = [peers EXCEPT ![n] = r.map]
        /\ nm_timedout' = [nm_timedout EXCEPT ![n] = @ \cup r.out]
        /\ hb_todo' = [hb_todo EXCEPT ![n] = r.todo]
        /\ hb_pc' = [hb_pc EXCEPT ![n] = IF r.todo = {} THEN "sleep" ELSE "push"]
        /\ peers_mutex' = [peers_mutex EXCEPT ![n] = IF r.todo = {} THEN "free" ELSE "hb"]

\* heartbeat_worker wakes up: lock_guard(peers_mutex), start of the for loop.
heartbeat_worker(n) ==
    /\ hb_pc[n] = "sleep"
    /\ nm_running[n]
    /\ hb_due[n]
    /\ peers_mutex[n] = "free"
    /\ SweepOn(n, DOMAIN peers[n])
    /\ hb_due' = [hb_due EXCEPT ![n] = FALSE]
    /\ UNCHANGED <<outgoing_messages, outgoing_mutex, now, nm_injected>>
    /\ UNCHANGED <<discUnch, recvUnch>>
    /\ UNCHANGED stopUnch
    /\ UNCHANGED notNm

\* lock_guard out_lock(outgoing_mutex); outgoing_messages.push(heartbeat);
\* then the for loop goes on.
HbPush(n) ==
    /\ hb_pc[n] = "push"
    /\ outgoing_mutex[n] = "free"
    /\ LET id == MinKey(hb_todo[n])
       IN  /\ outgoing_messages' = [outgoing_messages EXCEPT ![n] =
                 Append(@, [type |-> "HEARTBEAT", to |-> id])]
           /\ SweepOn(n, hb_todo[n] \ {id})
    /\ UNCHANGED <<outgoing_mutex, now, nm_injected, hb_due>>
    /\ UNCHANGED <<discUnch, recvUnch>>
    /\ UNCHANGED stopUnch
    /\ UNCHANGED notNm

\* No datagram is queued or being handled and no sweep is under way.
NetQuiet ==
    \A n \in NmNodes :
        /\ discovery_socket[n] = <<>> /\ data_socket[n] = <<>>
        /\ outgoing_messages[n] = <<>>
        /\ disc_pc[n] \in {"poll", "off"}
        /\ recv_pc[n] \in {"poll", "off"}
        /\ hb_pc[n] \in {"sleep", "off"}

\* HEARTBEAT_INTERVAL_MS go by: the sleep_for of every running heartbeat
\* worker has elapsed.  Handling a datagram and a sweep take far less than one
\* interval: what has arrived in an interval is handled within it.
Tick ==
    /\ NetQuiet
    /\ now < MaxTicks * HEARTBEAT_INTERVAL_MS
    /\ now' = now + HEARTBEAT_INTERVAL_MS
    /\ hb_due' = [n \in NmNodes |-> hb_pc[n] # "off"]
    /\ UNCHANGED <<peers, outgoing_messages, peers_mutex, outgoing_mutex,
                   nm_injected, hb_pc, hb_todo, nm_timedout>>
    /\ UNCHANGED <<discUnch, recvUnch>>
    /\ UNCHANGED stopUnch
    /\ UNCHANGED notNm

\* The remote peer (host 2, data port DEFAULT_DATA_PORT) sends a discovery
\* datagram to node n's discovery socket.
EnvDiscovery(n) ==
    /\ disc_pc[n] # "off"
    /\ nm_injected < MaxEnvMsgs
    /\ \E t \in {"DISCOVER", "ACKNOWLEDGE"} :
          discovery_socket' = [discovery_socket EXCEPT ![n] =
              Append(@, [type |-> t, port |-> DEFAULT_DATA_PORT, from |-> 2])]
    /\ nm_injected' = nm_injected + 1
    /\ UNCHANGED <<peers, outgoing_messages, peers_mutex, outgoing_mutex,
                   disc_pc, disc_msg, now, nm_broadcasts, nm_rediscovered>>
    /\ UNCHANGED <<recvUnch, hbUnch>>
    /\ UNCHANGED stopUnch
    /\ UNCHANGED notNm

\* The remote peer sends a Message of any MessageType to node n's data socket.
EnvData(n) ==
    /\ recv_pc[n] # "off"
    /\ nm_injected < MaxEnvMsgs
    /\ \E t \in {"HANDSHAKE_START", "HANDSHAKE_ACK", "HANDSHAKE_COMPLETE",
                  "HEARTBEAT", "DATA", "DISCONNECT"} :
          data_socket' = [data_socket EXCEPT ![n] =
              Append(@, [type |-> t, from |-> PeerId(2, DEFAULT_DATA_PORT)])]
    /\ nm_injected' = nm_injected + 1
    /\ UNCHANGED <<peers, incoming_messages, outgoing_messages, peers_mutex,
                   outgoing_mutex, recv_pc, recv_msg, now, nm_gotAck, nm_gotStart>>
    /\ UNCHANGED <<discUnch, hbUnch>>
    /\ UNCHANGED stopUnch
    /\ UNCHANGED notNm

\* Handshake datagrams the network drops per run.
MaxLost == 1

\* UDP loses the HANDSHAKE_START or HANDSHAKE_ACK that is next to arrive on
\* node n's data socket.
LoseDatagram(n) ==
    /\ nm_lost < MaxLost
    /\ data_socket[n] # <<>>
    /\ Head(data_socket[n]).type \in {"HANDSHAKE_START", "HANDSHAKE_ACK"}
    /\ data_socket' = [data_socket EXCEPT ![n] = Tail(@)]
    /\ nm_lost' = nm_lost + 1
    /\ UNCHANGED <<peers, incoming_messages, outgoing_messages, peers_mutex,
                   outgoing_mutex, recv_pc, recv_msg, now, nm_injected,
                   nm_gotAck, nm_gotStart>>
    /\ UNCHANGED <<discUnch, hbUnch>>
    /\ UNCHANGED stopUnch
    /\ UNCHANGED notLoss

----------------------------------------------------------------------------
\* Calls of stop() made on a NetworkManager.
MaxStopCalls == 2

\* Datagrams the remote peer sends to a NetworkManager that is being stopped.
MaxStopEnvMsgs == 2

\* The remote peer (host 2) of a node that may be stopped: it announces
\* itself on the discovery port, or sends a handshake reply, DATA or
\* DISCONNECT to the data port.
PeerTraffic(n) ==
    /\ recv_pc[n] # "off"
    /\ nm_injected < MaxStopEnvMsgs
    /\ \/ /\ discovery_socket' = [discovery_socket EXCEPT ![n] =
                 Append(@, [type |-> "DISCOVER", port |-> DEFAULT_DATA_PORT, from |-> 2])]
          /\ UNCHANGED data_socket
       \/ /\ \E t \in {"HANDSHAKE_ACK", "HANDSHAKE_COMPLETE", "DATA", "DISCONNECT"} :
                data_socket' = [data_socket EXCEPT ![n] =
                    Append(@, [type |-> t, from |-> PeerId(2, DEFAULT_DATA_PORT)])]
          /\ UNCHANGED discovery_socket
    /\ nm_injected' = nm_injected + 1
    /\ UNCHANGED <<peers, incoming_messages, outgoing_messages, peers_mutex,
                   outgoing_mutex, now, disc_pc, disc_msg, nm_broadcasts,
                   nm_rediscovered, recv_pc, recv_msg, nm_gotAck, nm_gotStart>>
    /\ UNCHANGED <<hbUnch, stopUnch>>
    /\ UNCHANGED notNm

DisconnectTargetsMutant(map) == DOMAIN map

\* broadcast_disconnect: the peers with is_connected.
DisconnectTargets(map) == {id \in DOMAIN map : map[id].is_connected}

\* The keys of S in the iteration order of the std::map.
RECURSIVE InKeyOrder(_)
InKeyOrder(S) ==
    IF S = {} THEN <<>> ELSE <<MinKey(S)>> \o InKeyOrder(S \ {MinKey(S)})

\* data_socket.send_to of a sequence of DISCONNECT Messages from node n.
RECURSIVE SendDisconnects(_, _, _)
SendDisconnects(socks, n, ids) ==
    IF ids = <<>> THEN socks
    ELSE LET id  == Head(ids)
             dst == id[1]
             delivered ==
                 IF dst \in NmNodes /\ id[2] = DEFAULT_DATA_PORT /\ recv_pc[dst] # "off"
                    THEN [socks EXCEPT ![dst] =
                            Append(@, [type |-> "DISCONNECT",
                                       from |-> PeerId(n, DEFAULT_DATA_PORT)])]
                    ELSE socks
         IN  SendDisconnects(delivered, n, Tail(ids))

\* stop(), up to broadcast_disconnect: if (!running) return; running = false;
\* discovering = false; message_cv.notify_all().
stop(n) ==
    /\ stop_pc[n] = "idle"
    /\ nm_stopCalls < MaxStopCalls
    /\ nm_stopCalls' = nm_stopCalls + 1
    /\ IF ~nm_running[n]
          THEN UNCHANGED <<nm_running, discovering, stop_pc>>
          ELSE /\ nm_running' = [nm_running EXCEPT ![n] = FALSE]
               /\ discovering' = [discovering EXCEPT ![n] = FALSE]
               /\ stop_pc' = [stop_pc EXCEPT ![n] = "disconnect"]
    /\ UNCHANGED <<peers, incoming_messages, outgoing_messages, peers_mutex,
                   outgoing_mutex, now, nm_injected, send_pc, nm_stopSent>>
    /\ UNCHANGED <<discUnch, recvUnch, hbUnch>>
    /\ UNCHANGED notNm

\* broadcast_disconnect: under peers_mutex, one send_to(DISCONNECT) from the
\* data socket for every peer with is_connected.
broadcast_disconnect(n) ==
    /\ stop_pc[n] = "disconnect"
    /\ peers_mutex[n] = "free"
    /\ LET ids == InKeyOrder(DisconnectTargets(peers[n]))
       IN  /\ data_socket' = SendDisconnects(data_socket, n, ids)
           /\ nm_stopSent' = [nm_stopSent EXCEPT ![n] = @ \o ids]
    /\ stop_pc' = [stop_pc EXCEPT ![n] = "join"]
    /\ UNCHANGED <<peers, incoming_messages, outgoing_messages, peers_mutex,
                   outgoing_mutex, now, nm_injected, nm_running, discovering,
                   send_pc, nm_stopCalls, recv_pc, recv_msg, nm_gotAck,
                   nm_gotStart>>
    /\ UNCHANGED <<discUnch, hbUnch>>
    /\ UNCHANGED notNm

\* The four join() calls of stop() have returned: every started worker has
\* left its loop.
StopJoin(n) ==
    /\ stop_pc[n] = "join"
    /\ disc_pc[n] = "exited"
    /\ recv_pc[n] = "exited"
    /\ send_pc[n] = "exited"
    /\ hb_pc[n] = "exited"
    /\ stop_pc' = [stop_pc EXCEPT ![n] = "close"]
    /\ UNCHANGED <<peers, incoming_messages, outgoing_messages, peers_mutex,
                   outgoing_mutex, now, nm_injected, nm_running, discovering,
                   send_pc, nm_stopSent, nm_stopCalls>>
    /\ UNCHANGED <<discUnch, recvUnch, hbUnch>>
    /\ UNCHANGED notNm

\* discovery_socket.close(); data_socket.close(); stop() returns.  What was
\* queued unread on the sockets is gone.
StopClose(n) ==
    /\ stop_pc[n] = "close"
    /\ discovery_socket' = [discovery_socket EXCEPT ![n] = <<>>]
    /\ data_socket' = [data_socket EXCEPT ![n] = <<>>]
    /\ disc_pc' = [disc_pc EXCEPT ![n] = "off"]
    /\ recv_pc' = [recv_pc EXCEPT ![n] = "off"]
    /\ send_pc' = [send_pc EXCEPT ![n] = "off"]
    /\ hb_pc' = [hb_pc EXCEPT ![n] = "off"]
    /\ stop_pc' = [stop_pc EXCEPT ![n] = "idle"]
    /\ UNCHANGED <<peers, incoming_messages, outgoing_messages, peers_mutex,
                   outgoing_mutex, now, nm_injected, nm_running, discovering,
                   nm_stopSent, nm_stopCalls, disc_msg, nm_broadcasts,
                   nm_rediscovered, recv_msg, nm_gotAck, nm_gotStart, hb_todo,
                   hb_due, nm_timedout>>
    /\ UNCHANGED notNm

\* discovery_worker: while (discovering) is false after the sleep.
DiscExit(n) ==
    /\ \/ disc_pc[n] = "broadcast"
       \/ disc_pc[n] = "poll" /\ discovery_socket[n] = <<>>
    /\ ~discovering[n]
    /\ disc_pc' = [disc_pc EXCEPT ![n] = "exited"]
    /\ UNCHANGED <<peers, incoming_messages, outgoing_messages, peers_mutex,
                   outgoing_mutex, now, nm_injected, discovery_socket, disc_msg,
                   nm_broadcasts, nm_rediscovered>>
    /\ UNCHANGED <<recvUnch, hbUnch, stopUnch>>
    /\ UNCHANGED notNm

\* receive_worker: while (running) is false after the sleep.
RecvExit(n) ==
    /\ recv_pc[n] = "poll"
    /\ ~nm_running[n]
    /\ recv_pc' = [recv_pc EXCEPT ![n] = "exited"]
    /\ UNCHANGED <<peers, incoming_messages, outgoing_messages, peers_mutex,
                   outgoing_mutex, now, nm_injected, data_socket, recv_msg,
                   nm_gotAck, nm_gotStart>>
    /\ UNCHANGED <<discUnch, hbUnch, stopUnch>>
    /\ UNCHANGED notNm

\* send_worker: woken with !running, the queue drained, while (running) is
\* false.
SendExit(n) ==
    /\ send_pc[n] = "run"
    /\ ~nm_running[n]
    /\ outgoing_mutex[n] = "free"
    /\ outgoing_messages[n] = <<>>
    /\ send_pc' = [send_pc EXCEPT ![n] = "exited"]
    /\ UNCHANGED <<peers, incoming_messages, outgoing_messages, peers_mutex,
                   outgoing_mutex, now, nm_injected, nm_running, discovering,
                   stop_pc, nm_stopSent, nm_stopCalls>>
    /\ UNCHANGED <<discUnch, recvUnch, hbUnch>>
    /\ UNCHANGED notNm

\* heartbeat_worker: while (running) is false after the sleep.
HbExit(n) ==
    /\ hb_pc[n] = "sleep"
    /\ ~nm_running[n]
    /\ hb_pc' = [hb_pc EXCEPT ![n] = "exited"]
    /\ UNCHANGED <<peers, incoming_messages, outgoing_messages, peers_mutex,
                   outgoing_mutex, now, nm_injected, hb_todo, hb_due, nm_timedout>>
    /\ UNCHANGED <<discUnch, recvUnch, stopUnch>>
    /\ UNCHANGED notNm

----------------------------------------------------------------------------
\* Raw datagrams a remote host sends to the data socket.
MaxRawMsgs == 2

\* enum class MessageType, in the order of its enumerators (0 .. 8).
MessageTypes ==
    <<"DISCOVER", "ACKNOWLEDGE", "HANDSHAKE_START", "HANDSHAKE_ACK",
      "HANDSHAKE_COMPLETE", "DATA", "HEARTBEAT", "DISCONNECT", "MSG_ERROR">>

\* The text in front of the first '|' of a datagram (or the whole datagram
\* if it has none): a decimal number, nothing, text that does not start with
\* a number, or a number too large for int.
RawFields ==
    [kind : {"number"}, value : -1..9] \cup
    [kind : {"empty", "text", "huge"}, value : {0}]

\* Datagrams as they come off the wire: with or without a '|'.
RawDatagrams ==
    [sep : {TRUE}, field : RawFields] \cup
    [sep : {FALSE}, field : {[kind |-> "text", value |-> 0]}]

\* std::stoi: the value, or an exception (invalid_argument, out_of_range).
stoi(field) ==
    IF field.kind = "number"
       THEN [threw |-> FALSE, value |-> field.value]
       ELSE [threw |-> TRUE, value |-> 0]

\* Message::deserialize: Message msg (type DATA by default); if there is a
\* '|', msg.type = static_cast<MessageType>(std::stoi(text before it)).
Message_deserialize(data) ==
    IF ~data.sep THEN [threw |-> FALSE, type |-> "DATA"]
    ELSE LET r == stoi(data.field)
         IN  IF r.threw THEN [threw |-> TRUE, type |-> "NONE"]
             ELSE IF r.value \in 0..(Len(MessageTypes) - 1)
                     THEN [threw |-> FALSE, type |-> MessageTypes[r.value + 1]]
                     ELSE [threw |-> FALSE, type |-> "INVALID"]

\* A remote host sends arbitrary bytes to node n's data socket.
EnvRaw(n) ==
    /\ recv_pc[n] \notin {"off", "terminated"}
    /\ nm_injected < MaxRawMsgs
    /\ \E d \in RawDatagrams :
          data_socket' = [data_socket EXCEPT ![n] =
              Append(@, [raw |-> d, from |-> PeerId(2, DEFAULT_DATA_PORT)])]
    /\ nm_injected' = nm_injected + 1
    /\ UNCHANGED <<peers, incoming_messages, outgoing_messages, peers_mutex,
                   outgoing_mutex, recv_pc, recv_msg, now, nm_gotAck, nm_gotStart>>
    /\ UNCHANGED <<discUnch, hbUnch>>
    /\ UNCHANGED stopUnch
    /\ UNCHANGED notNm

\* receive_worker, one iteration with a datagram: receive_from,
\* Message::deserialize(std::string(buffer)), handle_incoming_message.  An
\* exception of std::stoi is caught nowhere: it leaves the thread function and
\* std::terminate ends the process, all its threads included.
receive_worker(n) ==
    /\ recv_pc[n] = "poll"
    /\ nm_running[n]
    /\ data_socket[n] # <<>>
    /\ peers_mutex[n] = "free"
    /\ data_socket' = [data_socket EXCEPT ![n] = Tail(@)]
    /\ LET d == Head(data_socket[n])
           r == Message_deserialize(d.raw)
       IN  IF r.threw
              THEN /\ recv_pc' = [recv_pc EXCEPT ![n] = "terminated"]
                   /\ disc_pc' = [disc_pc EXCEPT ![n] = "terminated"]
                   /\ send_pc' = [send_pc EXCEPT ![n] = "terminated"]
                   /\ hb_pc' = [hb_pc EXCEPT ![n] = "terminated"]
                   /\ UNCHANGED <<peers, recv_msg, incoming_messages>>
              ELSE /\ HandleIncoming(n, [type |-> r.type, from |-> d.from])
                   /\ UNCHANGED <<disc_pc, send_pc, hb_pc>>
    /\ UNCHANGED <<outgoing_messages, peers_mutex, outgoing_mutex, now,
                   nm_injected, nm_gotAck, nm_gotStart>>
    /\ UNCHANGED <<discovery_socket, disc_msg, nm_broadcasts, nm_rediscovered,
                   hb_todo, hb_due, nm_timedout>>
    /\ UNCHANGED <<nm_running, discovering, stop_pc, nm_stopSent, nm_stopCalls>>
    /\ UNCHANGED notNm

NmInitFor(started) ==
    /\ discovery_socket = [n \in NmNodes |-> <<>>]
    /\ data_socket = [n \in NmNodes |-> <<>>]
    /\ peers = [n \in NmNodes |-> <<>>]
    /\ incoming_messages = [n \in NmNodes |-> <<>>]
    /\ outgoing_messages = [n \in NmNodes |-> <<>>]
    /\ peers_mutex = [n \in NmNodes |-> "free"]
    /\ outgoing_mutex = [n \in NmNodes |-> "free"]
    /\ disc_pc = [n \in NmNodes |-> IF n \in started THEN "broadcast" ELSE "off"]
    /\ disc_msg = [n \in NmNodes |-> NoMsg]
    /\ recv_pc = [n \in NmNodes |-> IF n \in started THEN "poll" ELSE "off"]
    /\ recv_msg = [n \in NmNodes |-> NoMsg]
    /\ hb_pc = [n \in NmNodes |-> IF n \in started THEN "sleep" ELSE "off"]
    /\ hb_todo = [n \in NmNodes |-> {}]
    /\ hb_due = [n \in NmNodes |-> FALSE]
    /\ now = 0
    /\ nm_broadcasts = [n \in NmNodes |-> 0]
    /\ nm_gotAck = [n \in NmNodes |-> {}]
    /\ nm_gotStart = [n \in NmNodes |-> {}]
    /\ nm_timedout = [n \in NmNodes |-> {}]
    /\ nm_injected = 0
    /\ nm_rediscovered = [n \in NmNodes |-> {}]
    /\ nm_running = [n \in NmNodes |-> n \in started]
    /\ discovering = [n \in NmNodes |-> n \in started]
    /\ send_pc = [n \in NmNodes |-> IF n \in started THEN "run" ELSE "off"]
    /\ stop_pc = [n \in NmNodes |-> "idle"]
    /\ nm_stopSent = [n \in NmNodes |-> <<>>]
    /\ nm_stopCalls = 0

(***************************************************************************)
(* Part 3.  AimlabVR::VRDataStreamer (src/VRDataStreamer.cpp): the          *)
(* application thread calling startStreaming / stopStreaming and the        *)
(* streaming thread running streamingThreadFunc, the only caller of         *)
(* sendFrame.                                                               *)
(***************************************************************************)
\* sendFrame calls per run.
MaxFrames == 4

\* startStreaming calls per run.
MaxSessions == 2

\* 2^16: a uint32_t is kept as two 16-bit halves <<high, low>>.
Half == 65536

Zero32 == <<0, 0>>

Max32 == <<Half - 1, Half - 1>>

Inc32NoCarry(x) == <<x[1], (x[2] + 1) % Half>>

\* sequenceNumber++ on a uint32_t: (x + 1) mod 2^32
Inc32(x) == <<(x[1] + ((x[2] + 1) \div Half)) % Half, (x[2] + 1) % Half>>

\* Sequence numbers a session has reached after 2^32 - 3 .. 2^32 - 1 frames
\* (and one with the low half about to carry).
NearWrap == {<<Half - 1, Half - 3>>, <<Half - 1, Half - 2>>, Max32, <<0, Half - 1>>}

AfterFrameMutant(ok) == IF ok THEN "sleepFrame" ELSE "none"

\* streamingThreadFunc after sendFrame returned: on false sleep 100 ms and
\* continue, on true sleep until the next frame time.
AfterFrame(ok) == IF ok THEN "sleepFrame" ELSE "sleepErr"

\* ConnectionStatus (Types.h).
ConnectionStatuses == {"Disconnected", "Connecting", "Connected", "Error"}

\* How far initialize gets: Config::validate fails, initializeLogger does not
\* return (Logger::initialize, Part 8), NetworkManager::initialize fails (no
\* socket), NetworkManager::connect fails (TCP), or all succeed.
\* createVRDevice and MockVRDevice::initialize never fail.
InitOutcomes == {"invalid", "logger", "socket", "connect", "ok"}

\* The application thread is not inside a call (the calls are sequential; the
\* only call that waits is stopStreaming, in join).
AppFree == app_pc = "idle"

\* Values of StreamConfig::updateRate: 0, the default of resetToDefaults, and
\* one above the largest rate validate accepts.
UpdateRates == {0, 90, 1001}

\* Config::validate, the check of updateRate (an empty serverAddress or a
\* serverPort of 0 fail it as well).
Config_validate(rate) == ~(rate = 0 \/ rate > 1000)

\* initialize(config, useMockDevice), called while no session is running:
\* m_pImpl->config.setStreamConfig(config) comes first, then validate.
initialize ==
    /\ AppFree
    /\ ~isStreaming
    /\ \E outcome \in InitOutcomes, rate \in UpdateRates :
          /\ ~Config_validate(rate) => outcome = "invalid"
          /\ m_config' = rate
          /\ init_ret' = IF outcome = "logger" THEN init_ret ELSE outcome = "ok"
          /\ init_succeeded' = (init_succeeded \/ outcome = "ok")
          /\ vrDevice' = IF outcome \in {"invalid", "logger"} THEN vrDevice ELSE TRUE
          /\ networkManager' = IF outcome \in {"invalid", "logger"}
                                  THEN networkManager ELSE TRUE
          /\ status' = CASE outcome \in {"invalid", "logger"} -> status
                         [] outcome = "socket"  -> "Disconnected"
                         [] outcome = "connect" -> "Error"
                         [] outcome = "ok"      -> "Connected"
          /\ app_pc' = IF outcome = "logger" THEN "initializeLogger" ELSE app_pc
    /\ UNCHANGED <<start_ret, starts_ok, stop_calls>>
    /\ UNCHANGED <<streamVars, notCalls>>

StartAllowedMutant(streaming, dev, net, st) == ~streaming /\ dev /\ net

\* setConfig(config): refused while streaming, stored as it is otherwise.
setConfig ==
    /\ AppFree
    /\ \E rate \in UpdateRates :
          m_config' = IF isStreaming THEN m_config ELSE rate
    /\ UNCHANGED <<vrDevice, networkManager, status, init_ret, init_succeeded,
                   start_ret, starts_ok, stop_calls, app_pc>>
    /\ UNCHANGED <<streamVars, notCalls>>

\* The three checks of startStreaming: not streaming already, vrDevice and
\* networkManager present, networkManager->isConnected().
StartAllowed(streaming, dev, net, st) ==
    /\ ~streaming
    /\ dev /\ net
    /\ st = "Connected"

\* startStreaming: returns false and changes nothing unless StartAllowed;
\* otherwise resets the counters and creates the streaming thread.
startStreaming ==
    /\ AppFree
    /\ st_sessions < MaxSessions
    /\ st_sessions' = st_sessions + 1
    /\ IF StartAllowed(isStreaming, vrDevice, networkManager, status)
          THEN /\ start_ret' = TRUE
               /\ starts_ok' = starts_ok + 1
               /\ isStreaming' = TRUE
               /\ shouldStop' = FALSE
               /\ totalPacketsSent' = 0
               /\ sequenceNumber' = Zero32
               /\ st_pc' = "loop"
               /\ st_log' = <<>>
               /\ st_sentCalls' = <<>>
               /\ st_stopCalled' = FALSE
               /\ st_fresh' = TRUE
          ELSE /\ start_ret' = FALSE
               /\ UNCHANGED <<isStreaming, shouldStop, totalPacketsSent,
                              sequenceNumber, st_pc, st_log, st_sentCalls,
                              st_stopCalled, st_fresh, starts_ok>>
    /\ UNCHANGED <<errorCallback, dataSentCallback, st_errCalls, st_sentCalls,
                   st_frames>>
    /\ UNCHANGED <<vrDevice, networkManager, status, m_config, init_ret,
                   init_succeeded,
                   stop_calls, app_pc>>
    /\ UNCHANGED notCalls

\* stopStreaming calls per run.
MaxStops == 3

\* stopStreaming up to the join: returns at once when not streaming,
\* otherwise sets shouldStop, clears isStreaming and waits in join.
stopStreaming ==
    /\ AppFree
    /\ stop_calls < MaxStops
    /\ stop_calls' = stop_calls + 1
    /\ IF ~isStreaming
          THEN UNCHANGED <<shouldStop, isStreaming, st_stopCalled, app_pc>>
          ELSE /\ shouldStop' = TRUE
               /\ isStreaming' = FALSE
               /\ st_stopCalled' = TRUE
               /\ app_pc' = "join"
    /\ UNCHANGED <<totalPacketsSent, sequenceNumber, errorCallback,
                   dataSentCallback, st_pc, st_log, st_errCalls, st_sentCalls,
                   st_fresh, st_frames, st_sessions>>
    /\ UNCHANGED <<vrDevice, networkManager, status, m_config, init_ret,
                   init_succeeded,
                   start_ret, starts_ok>>
    /\ UNCHANGED notCalls

JoinReturnsMutant(pc) == TRUE

\* streamingThread.join() returns once the thread function has returned.
JoinReturns(pc) == pc = "none"

\* stopStreaming from the return of join to its own return.
stopStreamingReturn ==
    /\ app_pc = "join"
    /\ JoinReturns(st_pc)
    /\ app_pc' = "idle"
    /\ UNCHANGED <<vrDevice, networkManager, status, m_config, init_ret,
                   init_succeeded,
                   start_ret, starts_ok, stop_calls>>
    /\ UNCHANGED <<streamVars, notCalls>>

\* One iteration of the while loop of streamingThreadFunc: sendFrame and what
\* follows its return.  dev: vrDevice->update() succeeded; sent:
\* networkManager->send(packet) succeeded.
sendFrame ==
    /\ st_pc = "loop"
    /\ ~shouldStop
    /\ st_frames < MaxFrames
    /\ st_frames' = st_frames + 1
    /\ \E dev \in BOOLEAN, sent \in BOOLEAN :
          IF ~dev
             THEN /\ st_pc' = AfterFrame(FALSE)
                  /\ UNCHANGED <<sequenceNumber, totalPacketsSent, st_log,
                                 st_errCalls, st_sentCalls>>
             ELSE /\ sequenceNumber' = Inc32(sequenceNumber)
                  /\ st_log' = Append(st_log, [seq |-> sequenceNumber,
                                               sent |-> sent, ret |-> sent])
                  /\ totalPacketsSent' = IF sent THEN totalPacketsSent + 1
                                                 ELSE totalPacketsSent
                  /\ st_errCalls' = IF ~sent /\ errorCallback THEN st_errCalls + 1
                                                              ELSE st_errCalls
                  /\ st_sentCalls' = IF sent /\ dataSentCallback
                                        THEN Append(st_sentCalls, sequenceNumber)
                                        ELSE st_sentCalls
                  /\ st_pc' = AfterFrame(sent)
    /\ UNCHANGED <<isStreaming, shouldStop, errorCallback, dataSentCallback,
                   st_stopCalled,
                   st_fresh, st_sessions>>
    /\ UNCHANGED notStream

\* sleep_for(100 ms) / sleep_until(nextFrameTime) returns.
StreamWake ==
    /\ st_pc \in {"sleepErr", "sleepFrame"}
    /\ st_pc' = "loop"
    /\ UNCHANGED <<isStreaming, shouldStop, totalPacketsSent, sequenceNumber,
                   errorCallback, dataSentCallback, st_log, st_errCalls,
                   st_sentCalls, st_stopCalled, st_fresh,
                   st_frames, st_sessions>>
    /\ UNCHANGED notStream

\* while (!shouldStop) is false: the thread function returns.
StreamExit ==
    /\ st_pc = "loop"
    /\ shouldStop
    /\ st_pc' = "none"
    /\ UNCHANGED <<isStreaming, shouldStop, totalPacketsSent, sequenceNumber,
                   errorCallback, dataSentCallback, st_log, st_errCalls,
                   st_sentCalls, st_stopCalled, st_fresh,
                   st_frames, st_sessions>>
    /\ UNCHANGED notStream

\* A streamer that is not streaming and has not streamed.
StreamIdle ==
    /\ isStreaming = FALSE
    /\ shouldStop = FALSE
    /\ totalPacketsSent = 0
    /\ sequenceNumber = Zero32
    /\ st_pc = "none"
    /\ st_log = <<>>
    /\ st_errCalls = 0
    /\ st_sentCalls = <<>>
    /\ st_stopCalled = FALSE
    /\ st_fresh = FALSE
    /\ st_frames = 0
    /\ st_sessions = 0

\* A session that has been streaming for a long time, none of whose packets
\* the transport has accepted so far.
StreamLongRunning ==
    /\ isStreaming = TRUE
    /\ shouldStop = FALSE
    /\ totalPacketsSent = 0
    /\ sequenceNumber \in NearWrap
    /\ st_pc = "loop"
    /\ st_log = <<>>
    /\ st_errCalls = 0
    /\ st_sentCalls = <<>>
    /\ st_stopCalled = FALSE
    /\ st_fresh = FALSE
    /\ st_frames = 0
    /\ st_sessions = 0

\* No serialize / deserialize exchange.
CodecIdle ==
    /\ cd_pc = "off"
    /\ m_packet = <<>>
    /\ cd_data = <<>>
    /\ cd_cut = "intact"
    /\ cd_result = <<>>

(***************************************************************************)
(* Part 4.  AimlabVR::DataPacket, Binary format (src/DataPacket.cpp).       *)
(* A uint32_t (and a float, taken as its 32-bit pattern) is a pair of       *)
(* 16-bit halves <<high, low>>, a uint64_t four halves, most significant    *)
(* first; a buffer is a sequence of bytes 0..255.                           *)
(***************************************************************************)
\* Devices per packet.
MaxDevices == 2

\* const uint32_t magic = 0x41494D4C
MAGIC == <<16713, 19788>>

\* const uint16_t version = 1
VERSION == 1

\* if (data.size() < 22)
HEADER_SIZE == 22

\* Bytes of one device record as serializeBinary writes it.
DEVICE_SIZE == 53

\* writeUint16: (val >> 8) & 0xFF, val & 0xFF
writeUint16(h) == <<(h \div 256) % 256, h % 256>>

\* writeUint32: (val >> 24) & 0xFF, (val >> 16) & 0xFF, (val >> 8) & 0xFF, val & 0xFF
writeUint32(v) == writeUint16(v[1]) \o writeUint16(v[2])

\* writeUint64: for i = 7 .. 0: (val >> (i * 8)) & 0xFF
writeUint64(v) ==
    writeUint16(v[1]) \o writeUint16(v[2]) \o writeUint16(v[3]) \o writeUint16(v[4])

\* writeFloat: memcpy to a uint32_t, writeUint32
writeFloat(f) == writeUint32(f)

\* The body of serializeBinary's loop over m_devices.
writeDevice(d) ==
    writeUint32(d.deviceId)
    \o <<d.deviceType % 256, d.trackingState % 256, IF d.isConnected THEN 1 ELSE 0>>
    \o writeFloat(d.position[1]) \o writeFloat(d.position[2]) \o writeFloat(d.position[3])
    \o writeFloat(d.rotation[1]) \o writeFloat(d.rotation[2])
    \o writeFloat(d.rotation[3]) \o writeFloat(d.rotation[4])
    \o writeUint64(d.timestamp)
    \o <<IF d.trigger THEN 1 ELSE 0, IF d.grip THEN 1 ELSE 0>>
    \o writeFloat(d.triggerValue) \o writeFloat(d.gripValue)

RECURSIVE writeDevices(_)
writeDevices(devs) ==
    IF devs = <<>> THEN <<>> ELSE writeDevice(Head(devs)) \o writeDevices(Tail(devs))

\* DataPacket::serializeBinary
serializeBinary(p) ==
    writeUint32(MAGIC) \o writeUint16(VERSION) \o writeUint32(p.seq)
    \o writeUint64(p.ts) \o writeUint32(<<0, Len(p.devices)>>)
    \o writeDevices(p.devices)

\* data[offset] (offset from 0).  An index at or beyond data.size() is read
\* out of the vector's bounds: whatever lies there (junk).
ByteAt(data, offset, junk) ==
    IF offset < Len(data) THEN data[offset + 1] ELSE junk

readUint32Mutant(data, offset, junk) ==
    <<ByteAt(data, offset + 3, junk) * 256 + ByteAt(data, offset + 2, junk),
      ByteAt(data, offset + 1, junk) * 256 + ByteAt(data, offset, junk)>>

\* readUint32: data[o] << 24 | data[o+1] << 16 | data[o+2] << 8 | data[o+3]
readUint32(data, offset, junk) ==
    <<ByteAt(data, offset, junk) * 256 + ByteAt(data, offset + 1, junk),
      ByteAt(data, offset + 2, junk) * 256 + ByteAt(data, offset + 3, junk)>>

\* readUint64: val = (val << 8) | data[offset++], eight times
readUint64(data, offset, junk) ==
    <<ByteAt(data, offset, junk) * 256 + ByteAt(data, offset + 1, junk),
      ByteAt(data, offset + 2, junk) * 256 + ByteAt(data, offset + 3, junk),
      ByteAt(data, offset + 4, junk) * 256 + ByteAt(data, offset + 5, junk),
      ByteAt(data, offset + 6, junk) * 256 + ByteAt(data, offset + 7, junk)>>

\* readFloat: readUint32, memcpy to a float
readFloat(data, offset, junk) == readUint32(data, offset, junk)

\* The body of deserializeBinary's loop: one DeviceData read from `offset` on.
readDevice(data, offset, junk) ==
    [deviceId      |-> readUint32(data, offset, junk),
     deviceType    |-> ByteAt(data, offset + 4, junk),
     trackingState |-> ByteAt(data, offset + 5, junk),
     isConnected   |-> ByteAt(data, offset + 6, junk) # 0,
     position      |-> <<readFloat(data, offset + 7, junk),
                         readFloat(data, offset + 11, junk),
                         readFloat(data, offset + 15, junk)>>,
     rotation      |-> <<readFloat(data, offset + 19, junk),
                         readFloat(data, offset + 23, junk),
                         readFloat(data, offset + 27, junk),
                         readFloat(data, offset + 31, junk)>>,
     timestamp     |-> readUint64(data, offset + 35, junk),
     trigger       |-> ByteAt(data, offset + 43, junk) # 0,
     grip          |-> ByteAt(data, offset + 44, junk) # 0,
     triggerValue  |-> readFloat(data, offset + 45, junk),
     gripValue     |-> readFloat(data, offset + 49, junk)]

\* i < deviceCount, deviceCount a uint32_t in halves, i small
LessThan32(i, count) == count[1] > 0 \/ i < count[2]

\* for (i = 0; i < deviceCount && offset < data.size(); ++i) { ... push_back }
\* Returns the devices read and whether an index >= data.size() was read.
RECURSIVE readDevices(_, _, _, _, _, _, _)
readDevices(data, offset, i, deviceCount, junk, devs, oob) ==
    IF LessThan32(i, deviceCount) /\ offset < Len(data)
       THEN readDevices(data, offset + DEVICE_SIZE, i + 1, deviceCount, junk,
                        Append(devs, readDevice(data, offset, junk)),
                        oob \/ offset + DEVICE_SIZE > Len(data))
       ELSE [devices |-> devs, oob |-> oob]

\* DataPacket::deserializeBinary.  ret: the return value; packet: the fields
\* it has set (<<>> when it returned before setting any).
deserializeBinary(data, junk) ==
    IF Len(data) < HEADER_SIZE
       THEN [ret |-> "false", packet |-> <<>>, oob |-> FALSE]
    ELSE IF readUint32(data, 0, junk) # MAGIC
       THEN [ret |-> "false", packet |-> <<>>, oob |-> FALSE]
    ELSE LET r == readDevices(data, HEADER_SIZE, 0, readUint32(data, 18, junk),
                              junk, <<>>, FALSE)
         IN  [ret |-> "true",
              packet |-> [seq |-> readUint32(data, 6, junk),
                          ts |-> readUint64(data, 10, junk),
                          devices |-> r.devices],
              oob |-> r.oob]

\* DataPacket::deserialize on a packet of PacketFormat::Binary
deserialize(data, junk) ==
    IF data = <<>> THEN [ret |-> "false", packet |-> <<>>, oob |-> FALSE]
    ELSE deserializeBinary(data, junk)

\* float bit patterns: 1.5f, -0.3f, 0.5f, 0.0f, a NaN
F_1_5 == <<16320, 0>>
F_m0_3 == <<48793, 39322>>
F_0_5 == <<16128, 0>>
F_0 == <<0, 0>>
F_NaN == <<32704, 1>>

\* The DeviceData values packets are built from.
DeviceSamples ==
    { [deviceId |-> <<0, 5>>, deviceType |-> 3, trackingState |-> 2,
       isConnected |-> TRUE,
       position |-> <<F_1_5, F_0_5, F_m0_3>>,
       rotation |-> <<F_0_5, F_0, F_m0_3, F_1_5>>,
       timestamp |-> <<0, 0, 1883, 52501>>,
       trigger |-> TRUE, grip |-> FALSE,
       triggerValue |-> F_0_5, gripValue |-> F_0],
      [deviceId |-> <<65535, 65534>>, deviceType |-> 5, trackingState |-> 0,
       isConnected |-> FALSE,
       position |-> <<F_NaN, F_0, F_1_5>>,
       rotation |-> <<F_1_5, F_m0_3, F_0_5, F_NaN>>,
       timestamp |-> <<65535, 1, 258, 65280>>,
       trigger |-> FALSE, grip |-> TRUE,
       triggerValue |-> F_NaN, gripValue |-> F_m0_3],
      [deviceId |-> <<258, 772>>, deviceType |-> 0, trackingState |-> 1,
       isConnected |-> TRUE,
       position |-> <<F_0, F_0, F_0>>,
       rotation |-> <<F_1_5, F_0, F_0, F_0>>,
       timestamp |-> <<0, 0, 0, 0>>,
       trigger |-> FALSE, grip |-> FALSE,
       triggerValue |-> F_0, gripValue |-> F_1_5] }

\* The packets that are serialized: sequence number, timestamp, up to
\* MaxDevices devices.
Packets ==
    { [seq |-> s, ts |-> t, devices |-> d] :
        s \in {<<0, 42>>, <<65535, 65535>>, <<258, 772>>},
        t \in {<<0, 0, 1883, 52501>>, <<33023, 2, 65280, 255>>},
        d \in UNION { [1..n -> DeviceSamples] : n \in 0..MaxDevices } }

\* packet.serialize() on a packet of PacketFormat::Binary
CdSerialize ==
    /\ cd_pc = "new"
    /\ cd_data' = serializeBinary(m_packet)
    /\ cd_pc' = "serialized"
    /\ UNCHANGED <<m_packet, cd_cut, cd_result>>
    /\ UNCHANGED notCodec

\* The buffer reaches the receiver cut short: only its first k bytes.
CdTruncate ==
    /\ cd_pc = "serialized"
    /\ cd_cut = "intact"
    /\ \E k \in 0..(Len(cd_data) - 1) : cd_data' = SubSeq(cd_data, 1, k)
    /\ cd_cut' = "truncated"
    /\ UNCHANGED <<cd_pc, m_packet, cd_result>>
    /\ UNCHANGED notCodec

\* The buffer reaches the receiver with one byte of the magic number changed.
CdCorruptMagic ==
    /\ cd_pc = "serialized"
    /\ cd_cut = "intact"
    /\ \E i \in 1..4, b \in {0, 76, 255} :
          /\ cd_data[i] # b
          /\ cd_data' = [cd_data EXCEPT ![i] = b]
    /\ cd_cut' = "badmagic"
    /\ UNCHANGED <<cd_pc, m_packet, cd_result>>
    /\ UNCHANGED notCodec

\* received.deserialize(data) on a fresh packet of PacketFormat::Binary.  A
\* read beyond the end of the vector yields whatever byte lies there, or the
\* process is stopped by the memory fault.
CdDeserialize ==
    /\ cd_pc = "serialized"
    /\ \E junk \in {0, 255}, fault \in BOOLEAN :
          LET r == deserialize(cd_data, junk)
          IN  cd_result' = IF r.oob /\ fault
                              THEN [ret |-> "crash", packet |-> <<>>, oob |-> TRUE]
                              ELSE r
    /\ cd_pc' = "done"
    /\ UNCHANGED <<m_packet, cd_data, cd_cut>>
    /\ UNCHANGED notCodec

(***************************************************************************)
(* Part 5.  One role-based node process (udp_chat_node2.cpp,               *)
(* udp_chat_node1_v2.cpp, aimlab_vr_datastreamer.cpp): main, the           *)
(* discoveryThread, performHandshake (Part 1, node 1), the receive thread  *)
(* and the keep-alive sender.  The peer and any other host are the         *)
(* environment.                                                            *)
(***************************************************************************)
\* Datagrams other hosts send to the chat / data socket of the process.
MaxChatInject == 2

\* Datagrams the discovery socket queues unread.
MaxDiscQueue == 2

Programs == {"udp_chat_node2", "udp_chat_node1_v2", "aimlab_vr_datastreamer"}

MSG_DISCOVER == "DISCOVER"

MSG_ACKNOWLEDGE == "ACK"

\* const std::string NODE_ID
NODE_ID(p) ==
    CASE p = "udp_chat_node2" -> "NODE2"
      [] p = "udp_chat_node1_v2" -> "NODE1"
      [] OTHER -> "AIMLAB_CPP"

\* const std::string PEER_ID
PEER_ID(p) ==
    CASE p = "udp_chat_node2" -> "NODE1"
      [] p = "udp_chat_node1_v2" -> "NODE2"
      [] OTHER -> "AIMLAB_UNITY"

\* const int CHAT_PORT / DATA_PORT
CHAT_PORT(p) ==
    CASE p = "udp_chat_node2" -> 50003
      [] p = "udp_chat_node1_v2" -> 50002
      [] OTHER -> 45100

\* The port the discovery socket is bound to: DISCOVERY_PORT, or
\* actual_discovery_port = DISCOVERY_BASE_PORT.
DiscoveryPortOf(p) == IF p = "aimlab_vr_datastreamer" THEN 45000 ELSE 50001

\* No datagram (recvfrom returned nothing); port 0 and disc_port 0: no field.
NoDgram == [type |-> "NONE", id |-> "", port |-> 0, disc_port |-> 0, from |-> ""]

\* The node's own DISCOVER broadcast as it comes back to its discovery socket:
\* udp_chat_node2 sends DISCOVER:NODE_ID:CHAT_PORT, the other two add
\* :actual_discovery_port.
OwnDiscover(p) ==
    [type |-> MSG_DISCOVER, id |-> NODE_ID(p), port |-> CHAT_PORT(p),
     disc_port |-> IF p = "udp_chat_node2" THEN 0 ELSE DiscoveryPortOf(p),
     from |-> "self"]

IdMatchesMutant(p, sender_id) == sender_id # NODE_ID(p)

\* sender_id == PEER_ID
IdMatches(p, sender_id) == sender_id = PEER_ID(p)

\* The ACK discoveryThread sends for a DISCOVER of the peer: udp_chat_node2
\* always, to the sender's address; the other two only if the DISCOVER carries
\* a fourth field, to that port of the sender.
AckFor(p, d) ==
    IF p = "udp_chat_node2"
       THEN <<[type |-> MSG_ACKNOWLEDGE, id |-> NODE_ID(p), port |-> CHAT_PORT(p),
               to |-> d.from]>>
    ELSE IF d.disc_port # 0
       THEN <<[type |-> MSG_ACKNOWLEDGE, id |-> NODE_ID(p), port |-> CHAT_PORT(p),
               to |-> d.from]>>
    ELSE <<>>

\* The receive thread's answer to a datagram: dataReceiveThread of
\* aimlab_vr_datastreamer answers a KEEPALIVE with a KEEPALIVE, receiveThread
\* of the two chat nodes answers nothing.
ReplyTo(p, kind) ==
    IF p = "aimlab_vr_datastreamer" /\ kind = MSG_KEEPALIVE
       THEN <<[type |-> MSG_KEEPALIVE, id |-> NODE_ID(p), port |-> 0, to |-> "peer"]>>
       ELSE <<>>

KeepaliveBlocksMutant(p) == TRUE

\* The keep-alive sender waits for a line of input after its keep-alive check
\* (sendThread: std::getline) or does not (datastreamer main: sleep_for).
KeepaliveBlocks(p) == p # "aimlab_vr_datastreamer"

\* Another host (the peer, or a stranger) sends a discovery datagram while
\* discoveryThread still reads its socket.
RbEnvDiscovery ==
    /\ rb_disc = "loop"
    /\ Len(discover_sock) < MaxDiscQueue
    /\ \E t \in {MSG_DISCOVER, MSG_ACKNOWLEDGE},
          i \in {PEER_ID(program), "STRANGER"},
          dp \in {0, DiscoveryPortOf(program)} :
          discover_sock' = Append(discover_sock,
              [type |-> t, id |-> i, port |-> 50002, disc_port |-> dp,
               from |-> IF i = "STRANGER" THEN "otherhost" ELSE "peerhost"])
    /\ UNCHANGED <<program, running, peer_discovered, peer_address, peer_port,
                   handshake_complete, rb_main, rb_disc, bcast_due, ka_due,
                   rb_send, rb_iter, rb_handled, rb_out>>
    /\ UNCHANGED <<hsVars, notRole>>

\* 2 seconds have gone by since the last broadcast.
RbBcastTick ==
    /\ rb_disc = "loop"
    /\ ~bcast_due
    /\ bcast_due' = TRUE
    /\ UNCHANGED <<program, running, peer_discovered, peer_address, peer_port,
                   handshake_complete, rb_main, rb_disc, discover_sock, ka_due,
                   rb_send, rb_iter, rb_handled, rb_out>>
    /\ UNCHANGED <<hsVars, notRole>>

\* One iteration of while (running && !peer_discovered) in discoveryThread:
\* the broadcast if it is due (it also reaches the node's own discovery
\* socket), one non-blocking recvfrom, the handling of what it returned, the
\* sleep and the loop condition; once peer_discovered is set the loop is left,
\* the socket closed and the thread returns.
RbDiscIteration ==
    /\ rb_disc = "loop"
    /\ running /\ ~peer_discovered
    /\ LET q1 == IF bcast_due /\ Len(discover_sock) < MaxDiscQueue
                    THEN Append(discover_sock, OwnDiscover(program))
                    ELSE discover_sock
           got == q1 # <<>>
           d   == IF got THEN Head(q1) ELSE NoDgram
           isD == got /\ d.type = MSG_DISCOVER /\ IdMatches(program, d.id)
           isA == got /\ ~isD /\ d.type = MSG_ACKNOWLEDGE /\ IdMatches(program, d.id)
           bc  == IF bcast_due
                     THEN <<[type |-> MSG_DISCOVER, id |-> NODE_ID(program),
                             port |-> CHAT_PORT(program), to |-> "broadcast"]>>
                     ELSE <<>>
       IN  /\ rb_handled' = d
           /\ rb_out' = bc \o (IF isD THEN AckFor(program, d) ELSE <<>>)
           /\ peer_discovered' = (isD \/ isA)
           /\ peer_address' = IF isD \/ isA THEN d.from ELSE peer_address
           /\ peer_port' = IF isD \/ isA THEN d.port ELSE peer_port
           /\ rb_disc' = IF isD \/ isA THEN "stopped" ELSE "loop"
           /\ discover_sock' = IF isD \/ isA THEN <<>>
                               ELSE IF got THEN Tail(q1) ELSE q1
    /\ bcast_due' = FALSE
    /\ rb_iter' = ~rb_iter
    /\ UNCHANGED <<program, running, handshake_complete, rb_main, ka_due, rb_send>>
    /\ UNCHANGED <<hsVars, notRole>>

\* main: while (!peer_discovered && running) sleep; then either the 'peer
\* discovery failed' branch or the chat socket is bound and performHandshake
\* is entered.
RbMainWait ==
    /\ rb_main = "wait_discovery"
    /\ ~(~peer_discovered /\ running)
    /\ IF ~peer_discovered
          THEN /\ rb_main' = "discovery_failed"
               /\ UNCHANGED hs_pc
          ELSE /\ rb_main' = "handshake"
               /\ hs_pc' = [hs_pc EXCEPT ![1] = "send"]
    /\ UNCHANGED <<attempts, handshake_sent, handshake_received, chat_sock,
                   hs_result, hs_seen, hs_sentCount, hs_readyCount, hs_injected>>
    /\ UNCHANGED <<program, running, peer_discovered, peer_address, peer_port,
                   handshake_complete, rb_disc, discover_sock, bcast_due,
                   ka_due, rb_send, rb_iter, rb_handled, rb_out>>
    /\ UNCHANGED notRole

\* main after performHandshake returned: on false closesocket, running =
\* false, join, return 1; on true handshake_complete = true, the receive
\* thread is started and the keep-alive sender's loop entered.
RbMainAfterHandshake ==
    /\ rb_main = "handshake"
    /\ hs_pc[1] = "done"
    /\ IF hs_result[1] = "true"
          THEN /\ handshake_complete' = TRUE
               /\ rb_main' = "chat"
               /\ UNCHANGED running
          ELSE /\ running' = FALSE
               /\ rb_main' = "handshake_failed"
               /\ UNCHANGED handshake_complete
    /\ UNCHANGED <<program, peer_discovered, peer_address, peer_port, rb_disc,
                   discover_sock, bcast_due, ka_due, rb_send, rb_iter,
                   rb_handled, rb_out>>
    /\ UNCHANGED <<hsVars, notRole>>

\* The peer, in its own performHandshake, sends a HANDSHAKE or a READY to the
\* chat / data socket.
RbEnvHandshake ==
    /\ rb_main = "handshake"
    /\ hs_pc[1] # "done"
    /\ hs_injected < MaxChatInject
    /\ Len(chat_sock[1]) < MaxSockQueue
    /\ \E k \in {MSG_HANDSHAKE, MSG_READY} :
          chat_sock' = [chat_sock EXCEPT ![1] = Append(@, [kind |-> k, from |-> "peer"])]
    /\ hs_injected' = hs_injected + 1
    /\ UNCHANGED <<hs_pc, attempts, handshake_sent, handshake_received,
                   hs_result, hs_seen, hs_sentCount, hs_readyCount>>
    /\ UNCHANGED <<roleVars, notRole>>

\* The connected peer sends a KEEPALIVE or a CHAT / DATA datagram.
RbEnvChat ==
    /\ rb_main = "chat"
    /\ Len(chat_sock[1]) < MaxSockQueue
    /\ \E k \in {MSG_KEEPALIVE, MSG_CHAT} :
          chat_sock' = [chat_sock EXCEPT ![1] = Append(@, [kind |-> k, from |-> "peer"])]
    /\ UNCHANGED <<hs_pc, attempts, handshake_sent, handshake_received,
                   hs_result, hs_seen, hs_sentCount, hs_readyCount, hs_injected>>
    /\ UNCHANGED <<roleVars, notRole>>

\* receiveThread / dataReceiveThread: recvfrom returned a datagram.
RbReceive ==
    /\ rb_main = "chat"
    /\ running
    /\ chat_sock[1] # <<>>
    /\ rb_out' = ReplyTo(program, Head(chat_sock[1]).kind)
    /\ chat_sock' = [chat_sock EXCEPT ![1] = Tail(@)]
    /\ UNCHANGED <<hs_pc, attempts, handshake_sent, handshake_received,
                   hs_result, hs_seen, hs_sentCount, hs_readyCount, hs_injected>>
    /\ UNCHANGED <<program, running, peer_discovered, peer_address, peer_port,
                   handshake_complete, rb_main, rb_disc, discover_sock,
                   bcast_due, ka_due, rb_send, rb_iter, rb_handled>>
    /\ UNCHANGED notRole

\* 5 seconds have gone by since the last keep-alive.
RbKaTick ==
    /\ rb_main = "chat"
    /\ running
    /\ ~ka_due
    /\ ka_due' = TRUE
    /\ UNCHANGED <<program, running, peer_discovered, peer_address, peer_port,
                   handshake_complete, rb_main, rb_disc, discover_sock,
                   bcast_due, rb_send, rb_iter, rb_handled, rb_out>>
    /\ UNCHANGED <<hsVars, notRole>>

\* The top of the keep-alive sender's loop (sendThread, or the 'keep alive
\* loop' of the datastreamer's main): send a KEEPALIVE if 5 s have gone by;
\* then wait for a line of input, or sleep 100 ms.
RbKeepalive ==
    /\ rb_main = "chat"
    /\ running
    /\ rb_send = "check"
    /\ rb_out' = IF ka_due
                    THEN <<[type |-> MSG_KEEPALIVE, id |-> NODE_ID(program),
                            port |-> 0, to |-> "peer"]>>
                    ELSE <<>>
    /\ ka_due' = FALSE
    /\ rb_send' = IF KeepaliveBlocks(program) THEN "getline" ELSE "check"
    /\ UNCHANGED <<program, running, peer_discovered, peer_address, peer_port,
                   handshake_complete, rb_main, rb_disc, discover_sock,
                   bcast_due, rb_iter, rb_handled>>
    /\ UNCHANGED <<hsVars, notRole>>

\* std::getline returns a line the user typed (in sendThread of the chat
\* nodes, in consoleThread of the datastreamer): "quit" sets running = false
\* and main goes on to its cleanup; a chat node sends any other non-empty
\* line as CHAT, the datastreamer sends nothing for a console command.
RbUserInput ==
    /\ rb_main = "chat"
    /\ rb_send = "getline" \/ ~KeepaliveBlocks(program)
    /\ \E input \in {"", "hello", "quit"} :
          IF input = "quit"
             THEN /\ running' = FALSE
                  /\ rb_main' = "exited"
                  /\ rb_out' = <<>>
                  /\ UNCHANGED rb_send
             ELSE /\ rb_out' = IF input = "" \/ rb_send # "getline" THEN <<>>
                               ELSE <<[type |-> MSG_CHAT, id |-> input, port |-> 0,
                                       to |-> "peer"]>>
                  /\ rb_send' = "check"
                  /\ UNCHANGED <<running, rb_main>>
    /\ UNCHANGED <<program, peer_discovered, peer_address, peer_port,
                   handshake_complete, rb_disc, discover_sock, bcast_due,
                   ka_due, rb_iter, rb_handled>>
    /\ UNCHANGED <<hsVars, notRole>>

\* The process before main has started anything (the globals' initializers).
RoleIdle ==
    /\ running = TRUE
    /\ peer_discovered = FALSE
    /\ peer_address = ""
    /\ peer_port = 0
    /\ handshake_complete = FALSE
    /\ rb_main = "off"
    /\ rb_disc = "off"
    /\ discover_sock = <<>>
    /\ bcast_due = FALSE
    /\ ka_due = FALSE
    /\ rb_send = "check"
    /\ rb_iter = FALSE
    /\ rb_handled = NoDgram
    /\ rb_out = <<>>

\* main has started discoveryThread and waits for peer_discovered.
RoleStarted ==
    /\ running = TRUE
    /\ peer_discovered = FALSE
    /\ peer_address = ""
    /\ peer_port = 0
    /\ handshake_complete = FALSE
    /\ rb_main = "wait_discovery"
    /\ rb_disc = "loop"
    /\ discover_sock = <<>>
    /\ bcast_due = FALSE
    /\ ka_due = FALSE
    /\ rb_send = "check"
    /\ rb_iter = FALSE
    /\ rb_handled = NoDgram
    /\ rb_out = <<>>

(***************************************************************************)
(* Part 6.  The command channel of aimlab_vr_datastreamer.cpp: the          *)
(* connected node's dataReceiveThread with processCommand, openDataFile,   *)
(* closeDataFile and writeData.                                            *)
(***************************************************************************)
\* DATA entries written to one file.
MaxData == 2

\* Files whose name generateFilename made up.
MaxFiles == 2

\* Datagrams the peer sends on the command channel.
MaxCmdMsgs == 3

MSG_COMMAND == "CMD"

MSG_DATA == "DATA"

MSG_STATUS == "STATUS"

CMD_OPEN_FILE == "OPEN_FILE"

CMD_CLOSE_FILE == "CLOSE_FILE"

CMD_STATUS == "GET_STATUS"

CMD_SHUTDOWN == "SHUTDOWN"

\* The text after "CMD:": a sub-opcode up to the next ':' and the rest.
CommandPayloads ==
    [cmd_type : {CMD_OPEN_FILE, CMD_CLOSE_FILE, CMD_STATUS, CMD_SHUTDOWN,
                 "RESET", ""},
     rest : {"", "run1.csv"}]

\* The part of the process state processCommand reads and writes.
CmdState == [file_open |-> file_open, running |-> running,
             data_count |-> data_count, file_count |-> file_count]

\* openDataFile(filename): false if a file is open or the file cannot be
\* opened (can_open is the file system's answer); generateFilename, used for
\* an empty filename, counts the file.
openDataFile(st, filename, can_open) ==
    IF st.file_open THEN [st |-> st, ret |-> FALSE]
    ELSE LET named == IF filename = ""
                         THEN [st EXCEPT !.file_count = @ + 1]
                         ELSE st
         IN  IF can_open
                THEN [st |-> [named EXCEPT !.file_open = TRUE, !.data_count = 0],
                      ret |-> TRUE]
                ELSE [st |-> named, ret |-> FALSE]

\* closeDataFile()
closeDataFile(st) == IF st.file_open THEN [st EXCEPT !.file_open = FALSE] ELSE st

processCommandMutant(st, command, can_open) ==
    IF command.cmd_type = CMD_STATUS
       THEN [st |-> st, reply |-> <<MSG_STATUS, "RUNNING">>]
       ELSE [st |-> [closeDataFile(st) EXCEPT !.running = FALSE],
             reply |-> <<MSG_STATUS, "SHUTTING_DOWN">>]

\* processCommand(command): the new state and the response string.
processCommand(st, command, can_open) ==
    CASE command.cmd_type = CMD_OPEN_FILE ->
            LET r == openDataFile(st, command.rest, can_open)
            IN  [st |-> r.st,
                 reply |-> IF r.ret THEN <<MSG_STATUS, "FILE_OPENED">>
                                    ELSE <<MSG_STATUS, "FILE_OPEN_FAILED">>]
      [] command.cmd_type = CMD_CLOSE_FILE ->
            [st |-> closeDataFile(st), reply |-> <<MSG_STATUS, "FILE_CLOSED">>]
      [] command.cmd_type = CMD_STATUS ->
            [st |-> st, reply |-> <<MSG_STATUS, "RUNNING">>]
      [] command.cmd_type = CMD_SHUTDOWN ->
            [st |-> [closeDataFile(st) EXCEPT !.running = FALSE],
             reply |-> <<MSG_STATUS, "SHUTTING_DOWN">>]
      [] OTHER ->
            [st |-> st, reply |-> <<MSG_STATUS, "UNKNOWN_COMMAND">>]

hsButSock == <<hs_pc, attempts, handshake_sent, handshake_received, hs_result,
               hs_seen, hs_sentCount, hs_readyCount>>

roleButCmd == <<program, peer_discovered, peer_address, peer_port,
                handshake_complete, rb_main, rb_disc, discover_sock, bcast_due,
                ka_due, rb_send, rb_iter, rb_handled>>

\* The peer sends CMD:<payload>, DATA:<type>:<value> or KEEPALIVE to the data
\* socket.
CmdEnv ==
    /\ rb_main = "chat"
    /\ hs_injected < MaxCmdMsgs
    /\ Len(chat_sock[1]) < MaxSockQueue
    /\ \/ \E c \in CommandPayloads :
             chat_sock' = [chat_sock EXCEPT ![1] =
                 Append(@, [kind |-> MSG_COMMAND, from |-> "peer", payload |-> c])]
       \/ \E k \in {MSG_DATA, MSG_KEEPALIVE} :
             chat_sock' = [chat_sock EXCEPT ![1] =
                 Append(@, [kind |-> k, from |-> "peer",
                            payload |-> [cmd_type |-> "", rest |-> ""]])]
    /\ hs_injected' = hs_injected + 1
    /\ UNCHANGED <<hsButSock, roleVars, cmdVars, notCmd>>

\* dataReceiveThread, one iteration with a datagram: a CMD is handed to
\* processCommand and the response sent to the peer; a DATA is written to the
\* file if one is open; a KEEPALIVE is answered.
dataReceiveThread ==
    /\ rb_main = "chat"
    /\ running
    /\ chat_sock[1] # <<>>
    /\ LET d == Head(chat_sock[1])
       IN  /\ chat_sock' = [chat_sock EXCEPT ![1] = Tail(@)]
           /\ IF d.kind = MSG_COMMAND
                 THEN \E can_open \in BOOLEAN :
                         LET r == processCommand(CmdState, d.payload, can_open)
                         IN  /\ file_open' = r.st.file_open
                             /\ running' = r.st.running
                             /\ data_count' = r.st.data_count
                             /\ file_count' = r.st.file_count
                             /\ rb_out' = <<[type |-> r.reply[1], id |-> r.reply[2],
                                             port |-> 0, to |-> "peer"]>>
                 ELSE /\ data_count' = IF d.kind = MSG_DATA /\ file_open
                                          THEN data_count + 1 ELSE data_count
                      /\ rb_out' = ReplyTo(program, d.kind)
                      /\ UNCHANGED <<file_open, running, file_count>>
    /\ data_count' <= MaxData
    /\ file_count' <= MaxFiles
    /\ UNCHANGED <<hsButSock, hs_injected, roleButCmd, notCmd>>

\* No data file has been opened.
CmdIdle ==
    /\ file_open = FALSE
    /\ data_count = 0
    /\ file_count = 0

\* main of the datastreamer has completed discovery and handshake and runs
\* its keep-alive loop; dataReceiveThread is running.
RoleConnected ==
    /\ program = "aimlab_vr_datastreamer"
    /\ running = TRUE
    /\ peer_discovered = TRUE
    /\ peer_address = "peerhost"
    /\ peer_port = 50002
    /\ handshake_complete = TRUE
    /\ rb_main = "chat"
    /\ rb_disc = "stopped"
    /\ discover_sock = <<>>
    /\ bcast_due = FALSE
    /\ ka_due = FALSE
    /\ rb_send = "check"
    /\ rb_iter = FALSE
    /\ rb_handled = NoDgram
    /\ rb_out = <<>>

\* A VRDataStreamer as its constructor leaves it.
StreamerFresh ==
    /\ vrDevice = FALSE
    /\ networkManager = FALSE
    /\ status = "Disconnected"
    /\ m_config = 90
    /\ init_ret = FALSE
    /\ init_succeeded = FALSE
    /\ start_ret = FALSE
    /\ starts_ok = 0
    /\ stop_calls = 0
    /\ app_pc = "idle"

\* A VRDataStreamer whose initialize has returned true.
StreamerReady ==
    /\ vrDevice = TRUE
    /\ networkManager = TRUE
    /\ status = "Connected"
    /\ m_config = 90
    /\ init_ret = TRUE
    /\ init_succeeded = TRUE
    /\ start_ret = FALSE
    /\ starts_ok = 0
    /\ stop_calls = 0
    /\ app_pc = "idle"

(***************************************************************************)
(* Part 11.  The role-based nodes and datagrams that are not well formed:  *)
(* discoveryThread with its std::stoi of the port field, receiveThread and *)
(* dataReceiveThread with their substr after the type word.  No thread     *)
(* function has a try block, so an exception leaves the thread function    *)
(* and std::terminate ends the process.                                    *)
(***************************************************************************)
\* Datagrams other hosts send in this part.
MaxMalformed == 3

\* What follows the type word of a datagram: nothing at all ("CHAT"), a
\* ':' and nothing ("CHAT:"), or a ':' and text.
Tails == {"none", "empty", "text"}

\* received.substr(MSG_X.length() + 1): std::out_of_range if the position is
\* beyond the length of the string.
substr(tail) == [threw |-> tail = "none",
                 value |-> IF tail = "text" THEN "RESET" ELSE ""]

\* A host sends DISCOVER or ACK with any id and any third field.
MfEnvDiscovery ==
    /\ rb_disc = "loop"
    /\ hs_injected < MaxMalformed
    /\ Len(discover_sock) < MaxDiscQueue
    /\ \E t \in {MSG_DISCOVER, MSG_ACKNOWLEDGE},
          i \in {PEER_ID(program), "STRANGER"},
          f \in RawFields :
          discover_sock' = Append(discover_sock,
              [type |-> t, id |-> i, port |-> f, disc_port |-> 0,
               from |-> IF i = "STRANGER" THEN "otherhost" ELSE "peerhost"])
    /\ hs_injected' = hs_injected + 1
    /\ UNCHANGED <<hsButSock, chat_sock>>
    /\ UNCHANGED <<program, running, peer_discovered, peer_address, peer_port,
                   handshake_complete, rb_main, rb_disc, bcast_due, ka_due,
                   rb_send, rb_iter, rb_handled, rb_out>>
    /\ UNCHANGED notRole

\* One iteration of discoveryThread of udp_chat_node2 with the parse of the
\* datagram: peer_address is assigned, then peer_port = std::stoi(third
\* field); an exception of stoi ends the process.
discoveryThread ==
    /\ rb_disc = "loop"
    /\ running /\ ~peer_discovered
    /\ LET got  == discover_sock # <<>>
           d    == IF got THEN Head(discover_sock) ELSE NoDgram
           isD  == got /\ d.type = MSG_DISCOVER /\ IdMatches(program, d.id)
           isA  == got /\ ~isD /\ d.type = MSG_ACKNOWLEDGE
                       /\ IdMatches(program, d.id)
           r    == IF isD \/ isA THEN stoi(d.port)
                                 ELSE [threw |-> FALSE, value |-> peer_port]
           bc   == IF bcast_due
                      THEN <<[type |-> MSG_DISCOVER, id |-> NODE_ID(program),
                              port |-> CHAT_PORT(program), to |-> "broadcast"]>>
                      ELSE <<>>
           found == (isD \/ isA) /\ ~r.threw
       IN  /\ rb_handled' = d
           /\ peer_address' = IF isD \/ isA THEN d.from ELSE peer_address
           /\ peer_port' = r.value
           /\ peer_discovered' = found
           /\ rb_out' = bc \o (IF isD /\ found
                                  THEN <<[type |-> MSG_ACKNOWLEDGE,
                                          id |-> NODE_ID(program),
                                          port |-> CHAT_PORT(program),
                                          to |-> d.from]>>
                                  ELSE <<>>)
           /\ rb_disc' = IF r.threw THEN "terminated"
                         ELSE IF found THEN "stopped" ELSE "loop"
           /\ rb_main' = IF r.threw THEN "terminated" ELSE rb_main
           /\ discover_sock' = IF found THEN <<>>
                               ELSE IF got THEN Tail(discover_sock)
                               ELSE discover_sock
    /\ bcast_due' = FALSE
    /\ rb_iter' = ~rb_iter
    /\ UNCHANGED <<program, running, handshake_complete, ka_due, rb_send>>
    /\ UNCHANGED <<hsVars, notRole>>

\* The peer, or any host, sends a datagram to the chat / data socket: a type
\* word and what follows it.
MfEnvChat ==
    /\ rb_main = "chat"
    /\ hs_injected < MaxMalformed
    /\ Len(chat_sock[1]) < MaxSockQueue
    /\ \E k \in {MSG_CHAT, MSG_COMMAND, MSG_DATA, MSG_KEEPALIVE}, t \in Tails :
          chat_sock' = [chat_sock EXCEPT ![1] =
              Append(@, [kind |-> k, from |-> "peer", tail |-> t])]
    /\ hs_injected' = hs_injected + 1
    /\ UNCHANGED <<hsButSock, roleVars, cmdVars, notCmd>>

\* One iteration with a datagram of receiveThread (udp_chat_node2: a CHAT is
\* printed from received.substr(5) on) or of dataReceiveThread
\* (aimlab_vr_datastreamer: a CMD goes to processCommand from substr(4) on, a
\* DATA is split from substr(5) on and written if a file is open, a
\* KEEPALIVE is answered); an exception of substr ends the process.
receiveThread ==
    /\ rb_main = "chat"
    /\ running
    /\ chat_sock[1] # <<>>
    /\ LET d      == Head(chat_sock[1])
           ds     == program = "aimlab_vr_datastreamer"
           parsed == IF ds THEN d.kind \in {MSG_COMMAND, MSG_DATA}
                           ELSE d.kind = MSG_CHAT
           r      == IF parsed THEN substr(d.tail)
                               ELSE [threw |-> FALSE, value |-> ""]
           c      == processCommand(CmdState,
                                    [cmd_type |-> r.value, rest |-> ""], FALSE)
       IN  /\ chat_sock' = [chat_sock EXCEPT ![1] = Tail(@)]
           /\ rb_main' = IF r.threw THEN "terminated" ELSE rb_main
           /\ rb_out' = IF r.threw THEN <<>>
                        ELSE IF ds /\ d.kind = MSG_COMMAND
                           THEN <<[type |-> c.reply[1], id |-> c.reply[2],
                                   port |-> 0, to |-> "peer"]>>
                        ELSE ReplyTo(program, d.kind)
           /\ data_count' = IF ~r.threw /\ ds /\ d.kind = MSG_DATA /\ file_open
                               THEN data_count + 1 ELSE data_count
    /\ UNCHANGED <<file_open, file_count>>
    /\ UNCHANGED <<program, running, peer_discovered, peer_address, peer_port,
                   handshake_complete, rb_disc, discover_sock, bcast_due,
                   ka_due, rb_send, rb_iter, rb_handled>>
    /\ UNCHANGED <<hsButSock, hs_injected, notCmd>>


(***************************************************************************)
(* Part 12.  discoveryThread of udp_chat_node1_v2 / aimlab_vr_datastreamer *)
(* when tryBindDiscoveryPort returned -1 ("broadcast-only mode": recv_sock  *)
(* is INVALID_SOCKET), and a peer that can receive.  The peer's own        *)
(* DISCOVER broadcasts go to the discovery ports, where this node has no   *)
(* socket, and change nothing.                                             *)
(***************************************************************************)
\* DISCOVER broadcasts the node makes per run.
MaxSoBroadcasts == 3

\* The DISCOVER of a broadcast-only node: actual_discovery_port is -1.
SendOnlyDiscover(p) ==
    [type |-> MSG_DISCOVER, id |-> NODE_ID(p), port |-> CHAT_PORT(p),
     disc_port |-> -1, from |-> "nodehost"]

\* One iteration of while (running && !peer_discovered) with recv_sock ==
\* INVALID_SOCKET: the broadcast from send_sock if 2 s have gone by, no
\* recvfrom, the sleep.  The broadcast reaches the peer's discovery socket
\* while the peer still has it open.
discoveryBroadcastOnly ==
    /\ rb_disc = "broadcast_only"
    /\ running /\ ~peer_discovered
    /\ \E due \in BOOLEAN :
          IF due /\ so_sent < MaxSoBroadcasts
             THEN /\ rb_out' = <<[type |-> MSG_DISCOVER, id |-> NODE_ID(program),
                                  port |-> CHAT_PORT(program), to |-> "broadcast"]>>
                  /\ so_sent' = so_sent + 1
                  /\ so_peerSock' =
                        IF ~so_peerFound /\ Len(so_peerSock) < MaxDiscQueue
                           THEN Append(so_peerSock, SendOnlyDiscover(program))
                           ELSE so_peerSock
             ELSE /\ rb_out' = <<>>
                  /\ UNCHANGED <<so_sent, so_peerSock>>
    /\ rb_iter' = ~rb_iter
    /\ UNCHANGED <<so_peerFound, so_peerOut>>
    /\ UNCHANGED <<program, running, peer_discovered, peer_address, peer_port,
                   handshake_complete, rb_main, rb_disc, discover_sock,
                   bcast_due, ka_due, rb_send, rb_handled>>
    /\ UNCHANGED notSendOnly

\* Where the peer's ACK goes: udp_chat_node2 answers to the sender address
\* of the DISCOVER (the node's send_sock); a peer of the second generation
\* answers to the port in the fourth field, htons(std::stoi("-1")).
AckTargets == {"send_sock", "port 65535"}

\* The peer's discoveryThread reads the node's DISCOVER: it sets its own
\* peer_discovered, sends its ACK and leaves its discovery loop.  The node
\* reads neither send_sock nor port 65535.
PeerDiscovers ==
    /\ so_peerSock # <<>>
    /\ ~so_peerFound
    /\ so_peerFound' = TRUE
    /\ so_peerSock' = <<>>
    /\ \E to \in AckTargets :
          so_peerOut' = Append(so_peerOut, [type |-> MSG_ACKNOWLEDGE,
                                      id |-> PEER_ID(program), to |-> to])
    /\ UNCHANGED so_sent
    /\ UNCHANGED <<roleVars, notSendOnly>>

\* The peer's discoveryThread broadcasts its own DISCOVER to the discovery
\* port(s): the node has no socket bound there.
PeerBroadcasts ==
    /\ ~so_peerFound
    /\ Len(so_peerOut) < MaxSoBroadcasts
    /\ so_peerOut' = Append(so_peerOut, [type |-> MSG_DISCOVER,
                                         id |-> PEER_ID(program),
                                         to |-> "discovery ports"])
    /\ UNCHANGED <<so_peerSock, so_peerFound, so_sent>>
    /\ UNCHANGED <<roleVars, notSendOnly>>


(***************************************************************************)
(* Part 7.  AimlabVR::NetworkManager (src/NetworkManager.cpp): the receive  *)
(* thread (receiveThreadFunc calling receive(packet, 100)) and the thread   *)
(* that calls startReceiving, stopReceiving, disconnect and the destructor. *)
(* Time is counted in units of the timeout passed to receive.               *)
(***************************************************************************)
\* startReceiving calls per run.
MaxRxStarts == 2

\* Datagrams the peer sends per run.
MaxRxMsgs == 2

\* Timeouts' worth of time the clock follows one receive call.
MaxRxWait == 3

\* startReceiving: refused while receiving, otherwise creates the thread.
startReceiving ==
    /\ rx_app = "idle"
    /\ rx_starts < MaxRxStarts
    /\ rx_starts' = rx_starts + 1
    /\ IF isReceiving
          THEN UNCHANGED <<isReceiving, rx_pc>>
          ELSE /\ isReceiving' = TRUE
               /\ rx_pc' = "test"
    /\ UNCHANGED <<rx_status, rx_queue, rx_waited, rx_app, rx_sent, rx_delivered>>
    /\ UNCHANGED notRx

\* receiveThreadFunc: while (isReceiving), then the call of receive.
RxLoopTest ==
    /\ rx_pc = "test"
    /\ IF isReceiving
          THEN /\ rx_pc' = "recvfrom"
               /\ rx_waited' = 0
          ELSE /\ rx_pc' = "none"
               /\ UNCHANGED rx_waited
    /\ UNCHANGED <<isReceiving, rx_status, rx_queue, rx_app, rx_starts, rx_sent,
                   rx_delivered>>
    /\ UNCHANGED notRx

\* receive / receiveUDP / receiveTCP: recvfrom or recv on the blocking socket
\* (no SO_RCVTIMEO, no select, timeoutMs unused) returns when a datagram is
\* there, or at once with an error on the socket that cleanup has closed; the
\* callback runs for a datagram.
RxReceive ==
    /\ rx_pc = "recvfrom"
    /\ \/ /\ rx_queue > 0
          /\ rx_queue' = rx_queue - 1
          /\ rx_delivered' = rx_delivered + 1
       \/ /\ rx_queue = 0
          /\ rx_status # "Connected"
          /\ UNCHANGED <<rx_queue, rx_delivered>>
    /\ rx_pc' = "test"
    /\ UNCHANGED <<isReceiving, rx_status, rx_waited, rx_app, rx_starts, rx_sent>>
    /\ UNCHANGED notRx

\* The peer sends a datagram.
RxEnvSend ==
    /\ rx_status = "Connected"
    /\ rx_sent < MaxRxMsgs
    /\ rx_sent' = rx_sent + 1
    /\ rx_queue' = rx_queue + 1
    /\ UNCHANGED <<isReceiving, rx_status, rx_pc, rx_waited, rx_app, rx_starts,
                   rx_delivered>>
    /\ UNCHANGED notRx

\* One timeout's worth of time passes while the thread is inside receive and
\* nothing has arrived.
RxTick ==
    /\ rx_pc = "recvfrom"
    /\ rx_queue = 0
    /\ rx_waited < MaxRxWait
    /\ rx_waited' = rx_waited + 1
    /\ UNCHANGED <<isReceiving, rx_status, rx_pc, rx_queue, rx_app, rx_starts,
                   rx_sent, rx_delivered>>
    /\ UNCHANGED notRx

\* What a caller that reaches stopReceiving does next: return at once when
\* not receiving, else clear isReceiving and wait in join.
StopReceivingTo(receiving, waiting, done) == IF receiving THEN waiting ELSE done

\* stopReceiving, up to the join.
stopReceiving ==
    /\ rx_app = "idle"
    /\ isReceiving
    /\ isReceiving' = FALSE
    /\ rx_app' = StopReceivingTo(isReceiving, "stop_join", "idle")
    /\ UNCHANGED <<rx_status, rx_pc, rx_queue, rx_waited, rx_starts, rx_sent,
                   rx_delivered>>
    /\ UNCHANGED notRx

\* disconnect, up to the join of its stopReceiving: nothing when already
\* Disconnected; without a thread it closes the socket at once.
disconnect ==
    /\ rx_app = "idle"
    /\ rx_status # "Disconnected"
    /\ isReceiving' = FALSE
    /\ rx_app' = StopReceivingTo(isReceiving, "disconnect_join", "idle")
    /\ rx_status' = IF isReceiving THEN rx_status ELSE "Disconnected"
    /\ rx_queue' = IF isReceiving THEN rx_queue ELSE 0
    /\ UNCHANGED <<rx_pc, rx_waited, rx_starts, rx_sent, rx_delivered>>
    /\ UNCHANGED notRx

\* ~NetworkManager: disconnect(); stopReceiving(); up to the first join.
Destructor ==
    /\ rx_app = "idle"
    /\ isReceiving' = FALSE
    /\ rx_app' = StopReceivingTo(isReceiving, "destructor_join", "gone")
    /\ rx_status' = IF isReceiving THEN rx_status ELSE "Disconnected"
    /\ rx_queue' = IF isReceiving THEN rx_queue ELSE 0
    /\ UNCHANGED <<rx_pc, rx_waited, rx_starts, rx_sent, rx_delivered>>
    /\ UNCHANGED notRx

\* receiveThread.join() returns (the thread function has returned) and the
\* caller finishes: disconnect and the destructor close the socket and set
\* Disconnected.
RxJoinReturn ==
    /\ rx_app \in {"stop_join", "disconnect_join", "destructor_join"}
    /\ rx_pc = "none"
    /\ rx_app' = IF rx_app = "destructor_join" THEN "gone" ELSE "idle"
    /\ rx_status' = IF rx_app = "stop_join" THEN rx_status ELSE "Disconnected"
    /\ rx_queue' = IF rx_app = "stop_join" THEN rx_queue ELSE 0
    /\ UNCHANGED <<isReceiving, rx_pc, rx_waited, rx_starts, rx_sent, rx_delivered>>
    /\ UNCHANGED notRx

\* No NetworkManager of this part exists.
RxIdle ==
    /\ isReceiving = FALSE
    /\ rx_status = "Disconnected"
    /\ rx_pc = "none"
    /\ rx_queue = 0
    /\ rx_waited = 0
    /\ rx_app = "gone"
    /\ rx_starts = 0
    /\ rx_sent = 0
    /\ rx_delivered = 0

\* A NetworkManager after initialize and connect have returned true.
RxConnected ==
    /\ isReceiving = FALSE
    /\ rx_status = "Connected"
    /\ rx_pc = "none"
    /\ rx_queue = 0
    /\ rx_waited = 0
    /\ rx_app = "idle"
    /\ rx_starts = 0
    /\ rx_sent = 0
    /\ rx_delivered = 0

(***************************************************************************)
(* Part 8.  AimlabVR::Logger (src/Logger.cpp): one thread calling           *)
(* initialize, the logging functions and shutdown on the singleton.         *)
(***************************************************************************)
\* Logger::initialize calls per run.
MaxLogInits == 3

\* Messages written per run.
MaxLogged == 3

\* enum class LogLevel: Debug = 0, Info, Warning, Error, Critical.
LogLevels == 0..4

LogLevel_Info == 1

\* Logger::log's first test: the message is dropped below the minimum level
\* or when the logger is not initialized.
LogPasses(level, minLevel, initd) == ~(level < minLevel \/ ~initd)

\* std::mutex::lock by the thread that owns the mutex is undefined: the call
\* blocks for ever or throws std::system_error (which leaves initialize and
\* releases the lock_guard of initialize).
RelockOutcomes == {"blocked", "thrown"}

\* Logger::initialize(logToFile, logFilePath, minLevel): lock_guard on
\* m_mutex, shutdown() if initialized (lock_guard on m_mutex again), the
\* assignments, m_initialized = true, info("Logger initialized") (log: the
\* level test, then lock_guard on m_mutex again).
Logger_initialize ==
    /\ lg_pc = "idle"
    /\ m_mutex = "free"
    /\ lg_inits < MaxLogInits
    /\ lg_inits' = lg_inits + 1
    /\ \E minLevel \in LogLevels, relock \in RelockOutcomes :
          IF m_initialized
             THEN /\ lg_pc' = relock
                  /\ m_mutex' = IF relock = "blocked" THEN "held" ELSE "free"
                  /\ UNCHANGED <<m_initialized, m_minLevel>>
             ELSE /\ m_minLevel' = minLevel
                  /\ m_initialized' = TRUE
                  /\ IF LogPasses(LogLevel_Info, minLevel, TRUE)
                        THEN /\ lg_pc' = relock
                             /\ m_mutex' = IF relock = "blocked" THEN "held" ELSE "free"
                        ELSE /\ lg_pc' = "idle"
                             /\ m_mutex' = "free"
    /\ UNCHANGED lg_emitted
    /\ UNCHANGED notLog

\* Logger::log(level, ...) through debug / info / warning / error / critical.
Logger_log ==
    /\ lg_pc = "idle"
    /\ m_mutex = "free"
    /\ lg_emitted < MaxLogged
    /\ \E level \in LogLevels :
          lg_emitted' = IF LogPasses(level, m_minLevel, m_initialized)
                           THEN lg_emitted + 1 ELSE lg_emitted
    /\ UNCHANGED <<m_mutex, m_initialized, m_minLevel, lg_pc, lg_inits>>
    /\ UNCHANGED notLog

\* Logger::shutdown.
Logger_shutdown ==
    /\ lg_pc = "idle"
    /\ m_mutex = "free"
    /\ m_initialized' = FALSE
    /\ UNCHANGED <<m_mutex, m_minLevel, lg_pc, lg_inits, lg_emitted>>
    /\ UNCHANGED notLog

\* The Logger as its constructor leaves it.
LogIdle ==
    /\ m_mutex = "free"
    /\ m_initialized = FALSE
    /\ m_minLevel = LogLevel_Info
    /\ lg_pc = "idle"
    /\ lg_inits = 0
    /\ lg_emitted = 0

(***************************************************************************)
(* Part 9.  streamingThreadFunc with its clock (src/VRDataStreamer.cpp):    *)
(* a session whose sendFrame always succeeds, in discrete time.  A frame,   *)
(* from the moment it is due to the return of sendFrame, takes less than    *)
(* one period.                                                              *)
(***************************************************************************)
\* Ticks the clock runs per session.
MaxClock == 20

\* config.updateRate of the session, in Hz.
updateRate == 100

\* One tick of the model's clock, in microseconds.
TickMicros == 2500

\* std::chrono::microseconds(1000000 / config.updateRate), in ticks.
frameDuration == (1000000 \div updateRate) \div TickMicros

AdvanceFrameTimeMutant(next, t, dur) == t + dur

\* nextFrameTime += frameDuration (t: the clock at that moment).
AdvanceFrameTime(next, t, dur) == next + dur

\* Loop head: frameStart, sendFrame begins.  It will take cost ticks; with
\* the time the thread is already late, less than one period.
TimedFrameStart ==
    /\ tm_pc = "loop"
    /\ ~shouldStop
    /\ \E cost \in 0..(frameDuration - 1) :
          /\ (clock - nextFrameTime) + cost < frameDuration
          /\ tm_left' = cost
          /\ tm_cost' = cost
    /\ tm_pc' = "sendFrame"
    /\ UNCHANGED <<clock, nextFrameTime, startTime, tm_behind>>
    /\ UNCHANGED <<streamVars, notTime>>

\* Ticks a frame that overruns may take.
MaxOverrun == 9

\* Loop head under contention: this sendFrame takes a period or more.
TimedSlowFrameStart ==
    /\ tm_pc = "loop"
    /\ ~shouldStop
    /\ \E cost \in frameDuration..MaxOverrun :
          /\ tm_left' = cost
          /\ tm_cost' = cost
    /\ tm_pc' = "sendFrame"
    /\ UNCHANGED <<clock, nextFrameTime, startTime, tm_behind>>
    /\ UNCHANGED <<streamVars, notTime>>

RunningBehindMutant(next, t) == next

\* "We're running behind, reset timing": nextFrameTime = now.
RunningBehind(next, t) == t

\* sendFrame returns true; nextFrameTime += frameDuration; sleep_until it if
\* it lies ahead, else nextFrameTime = now.
TimedFrameDone ==
    /\ tm_pc = "sendFrame"
    /\ tm_left = 0
    /\ sequenceNumber' = Inc32(sequenceNumber)
    /\ totalPacketsSent' = totalPacketsSent + 1
    /\ LET next == AdvanceFrameTime(nextFrameTime, clock, frameDuration)
       IN IF next > clock
             THEN /\ nextFrameTime' = next
                  /\ tm_pc' = "sleep_until"
                  /\ tm_behind' = FALSE
             ELSE /\ nextFrameTime' = RunningBehind(next, clock)
                  /\ tm_pc' = "loop"
                  /\ tm_behind' = TRUE
    /\ UNCHANGED <<clock, startTime, tm_left, tm_cost>>
    /\ UNCHANGED <<isStreaming, shouldStop, errorCallback, dataSentCallback,
                   st_pc, st_log, st_errCalls, st_sentCalls, st_stopCalled,
                   st_fresh, st_frames, st_sessions>>
    /\ UNCHANGED notTime

\* sleep_until(nextFrameTime) returns: not before nextFrameTime.
TimedWake ==
    /\ tm_pc = "sleep_until"
    /\ clock >= nextFrameTime
    /\ tm_pc' = "loop"
    /\ UNCHANGED <<clock, nextFrameTime, startTime, tm_left, tm_cost, tm_behind>>
    /\ UNCHANGED <<streamVars, notTime>>

\* One tick passes: inside sendFrame, or asleep (the wake-up may be late, but
\* not by a whole period).
TimeTick ==
    /\ clock < MaxClock
    /\ \/ tm_pc = "sendFrame" /\ tm_left > 0
       \/ tm_pc = "sleep_until" /\ clock - nextFrameTime < frameDuration - 1
    /\ clock' = clock + 1
    /\ tm_left' = IF tm_pc = "sendFrame" THEN tm_left - 1 ELSE tm_left
    /\ UNCHANGED <<nextFrameTime, startTime, tm_pc, tm_cost, tm_behind>>
    /\ UNCHANGED <<streamVars, notTime>>

\* No timed thread.
TimeIdle ==
    /\ clock = 0
    /\ nextFrameTime = 0
    /\ startTime = 0
    /\ tm_pc = "none"
    /\ tm_left = 0
    /\ tm_cost = 0
    /\ tm_behind = FALSE

\* startStreaming has returned true at some tick and the thread has taken
\* nextFrameTime = now() in front of its loop.
TimeStarted ==
    /\ clock \in 0..(frameDuration - 1)
    /\ nextFrameTime = clock
    /\ startTime = clock
    /\ tm_pc = "loop"
    /\ tm_left = 0
    /\ tm_cost = 0
    /\ tm_behind = FALSE

\* The session that startStreaming leaves.
StreamStarted ==
    /\ isStreaming = TRUE
    /\ shouldStop = FALSE
    /\ totalPacketsSent = 0
    /\ sequenceNumber = Zero32
    /\ st_pc = "loop"
    /\ st_log = <<>>
    /\ st_errCalls = 0
    /\ st_sentCalls = <<>>
    /\ st_stopCalled = FALSE
    /\ st_fresh = TRUE
    /\ st_frames = 0
    /\ st_sessions = 1

(***************************************************************************)
(* Part 10.  VRDataStreamer::sendFrame called by the streaming thread and,  *)
(* as the public manual-mode call, by the application during a session.     *)
(* sequenceNumber and totalPacketsSent are plain integers without a mutex:  *)
(* each ++ is a load and a store, and the callers' steps interleave.        *)
(***************************************************************************)
\* sendFrame calls per run.
MaxRaceFrames == 3

\* The two callers of sendFrame.
Callers == {"streamingThread", "application"}

\* packet.setSequenceNumber(m_pImpl->sequenceNumber++): the load.
SfLoadSeq(c) ==
    /\ sf_pc[c] = "idle"
    /\ ~shouldStop
    /\ sf_calls < MaxRaceFrames
    /\ sf_calls' = sf_calls + 1
    /\ sf_reg' = [sf_reg EXCEPT ![c] = sequenceNumber]
    /\ sf_pc' = [sf_pc EXCEPT ![c] = "loaded"]
    /\ UNCHANGED sf_seq
    /\ UNCHANGED <<streamVars, notRace>>

\* The store of the incremented value, the packet numbered with the loaded
\* one, and networkManager->send(packet).
SfStoreSeqAndSend(c) ==
    /\ sf_pc[c] = "loaded"
    /\ sequenceNumber' = Inc32(sf_reg[c])
    /\ \E sent \in BOOLEAN :
          /\ st_log' = Append(st_log, [seq |-> sf_reg[c], sent |-> sent,
                                       ret |-> sent])
          /\ st_errCalls' = IF ~sent /\ errorCallback THEN st_errCalls + 1
                                                      ELSE st_errCalls
          /\ sf_pc' = [sf_pc EXCEPT ![c] = IF sent THEN "sent" ELSE "idle"]
    /\ sf_seq' = [sf_seq EXCEPT ![c] = sf_reg[c]]
    /\ UNCHANGED <<sf_reg, sf_calls>>
    /\ UNCHANGED <<isStreaming, shouldStop, totalPacketsSent, errorCallback,
                   dataSentCallback, st_sentCalls,
                   st_pc, st_stopCalled, st_fresh, st_frames, st_sessions>>
    /\ UNCHANGED notRace

\* m_pImpl->totalPacketsSent++: the load.
SfLoadTotal(c) ==
    /\ sf_pc[c] = "sent"
    /\ sf_reg' = [sf_reg EXCEPT ![c] = totalPacketsSent]
    /\ sf_pc' = [sf_pc EXCEPT ![c] = "counting"]
    /\ UNCHANGED <<sf_seq, sf_calls>>
    /\ UNCHANGED <<streamVars, notRace>>

\* m_pImpl->totalPacketsSent++: the store; sendFrame returns true.
SfStoreTotal(c) ==
    /\ sf_pc[c] = "counting"
    /\ totalPacketsSent' = sf_reg[c] + 1
    /\ sf_pc' = [sf_pc EXCEPT ![c] = "idle"]
    /\ st_sentCalls' = IF dataSentCallback
                          THEN Append(st_sentCalls, sf_seq[c])
                          ELSE st_sentCalls
    /\ UNCHANGED <<sf_reg, sf_seq, sf_calls>>
    /\ UNCHANGED <<isStreaming, shouldStop, sequenceNumber, errorCallback,
                   dataSentCallback, st_pc, st_log, st_errCalls, st_stopCalled,
                   st_fresh,
                   st_frames, st_sessions>>
    /\ UNCHANGED notRace

\* No caller is inside sendFrame.
RaceIdle ==
    /\ sf_pc = [c \in Callers |-> "idle"]
    /\ sf_reg = [c \in Callers |-> 0]
    /\ sf_seq = [c \in Callers |-> Zero32]
    /\ sf_calls = 0

\* No datagram has been lost.
LossIdle ==
    /\ nm_lost = 0

\* The peer of the role-based node has received and sent nothing.
SendOnlyIdle ==
    /\ so_peerSock = <<>>
    /\ so_peerFound = FALSE
    /\ so_sent = 0
    /\ so_peerOut = <<>>

\* The states no part after Part 5, the streamer's calls aside, has left yet.
LaterIdle ==
    CmdIdle /\ RxIdle /\ LogIdle /\ TimeIdle /\ RaceIdle /\ LossIdle /\ SendOnlyIdle

\* The states no part after Part 5 has left yet.
ExtraIdle == LaterIdle /\ StreamerFresh

vars == <<hsVars, nmVars, streamVars, codecVars, roleVars, extraVars>>

\* One node running performHandshake against an arbitrary wire.
InitHandshake ==
    /\ HsInitFor({1}) /\ NmInitFor({})
    /\ StreamIdle /\ errorCallback = FALSE /\ dataSentCallback = FALSE /\ CodecIdle
    /\ program = "udp_chat_node2" /\ RoleIdle /\ ExtraIdle

NextHandshake ==
    \/ HsSendStep(1)
    \/ HsRecvStep(1)
    \/ HsInject(1)

SpecHandshake == InitHandshake /\ [][NextHandshake]_vars

\* Two nodes running performHandshake against each other, lossless FIFO.
InitHandshakePair ==
    /\ HsInitFor(HsNodes) /\ NmInitFor({})
    /\ StreamIdle /\ errorCallback = FALSE /\ dataSentCallback = FALSE /\ CodecIdle
    /\ program = "udp_chat_node2" /\ RoleIdle /\ ExtraIdle

NextHandshakePair ==
    \/ \E n \in HsNodes : HsSendStep(n)
    \/ \E n \in HsNodes : HsRecvStep(n)

SpecHandshakePair == InitHandshakePair /\ [][NextHandshakePair]_vars

\* Two NetworkManager instances after start(true), lossless FIFO delivery, in
\* the first heartbeat interval: each heartbeat worker has made its first
\* sweep (over an empty peers map) and sleeps.
InitNetPair ==
    /\ NmInitFor(NmNodes)
    /\ HsInitFor({})
    /\ StreamIdle /\ errorCallback = FALSE /\ dataSentCallback = FALSE /\ CodecIdle
    /\ program = "udp_chat_node2" /\ RoleIdle /\ ExtraIdle

NextNetPair ==
    \/ \E n \in NmNodes : DiscBroadcast(n)
    \/ \E n \in NmNodes : handle_discovery_message(n)
    \/ \E n \in NmNodes : initiate_handshake(n)
    \/ \E n \in NmNodes : handle_incoming_message(n)
    \/ \E n \in NmNodes : handle_handshake_start(n)
    \/ \E n \in NmNodes : handle_handshake_ack(n)
    \/ \E n \in NmNodes : mark_peer_connected(n)
    \/ \E n \in NmNodes : send_worker(n)

SpecNetPair == InitNetPair /\ [][NextNetPair]_vars

\* The same two instances on a network that may lose handshake datagrams.
NextNetLossy ==
    \/ NextNetPair
    \/ \E n \in NmNodes : LoseDatagram(n)

SpecNetLossy == InitNetPair /\ [][NextNetLossy]_vars

\* One NetworkManager after start(true) on host 1; host 2 runs some other
\* program that may send any datagram to it.
InitNet ==
    /\ NmInitFor({1})
    /\ HsInitFor({})
    /\ StreamIdle /\ errorCallback = FALSE /\ dataSentCallback = FALSE /\ CodecIdle
    /\ program = "udp_chat_node2" /\ RoleIdle /\ ExtraIdle

NextNet ==
    \/ DiscBroadcast(1)
    \/ handle_discovery_message(1)
    \/ initiate_handshake(1)
    \/ handle_incoming_message(1)
    \/ handle_handshake_start(1)
    \/ handle_handshake_ack(1)
    \/ mark_peer_connected(1)
    \/ handle_disconnect(1)
    \/ send_worker(1)
    \/ heartbeat_worker(1)
    \/ HbPush(1)
    \/ Tick
    \/ EnvDiscovery(1)
    \/ EnvData(1)

SpecNet == InitNet /\ [][NextNet]_vars

\* The same node later on: the handshake with the peer on host 2 is done,
\* the discovery worker sleeps between two iterations of its loop, and the
\* history counts from here.
InitNetSession ==
    /\ discovery_socket = [n \in NmNodes |-> <<>>]
    /\ data_socket = [n \in NmNodes |-> <<>>]
    /\ now = 0
    /\ peers = [n \in NmNodes |->
                  IF n = 1
                     THEN MarkConnected(
                              MapPut(<<>>, PeerId(2, DEFAULT_DATA_PORT),
                                     PeerInfo(2, DEFAULT_DATA_PORT)),
                              PeerId(2, DEFAULT_DATA_PORT))
                     ELSE <<>>]
    /\ incoming_messages = [n \in NmNodes |-> <<>>]
    /\ outgoing_messages = [n \in NmNodes |-> <<>>]
    /\ peers_mutex = [n \in NmNodes |-> "free"]
    /\ outgoing_mutex = [n \in NmNodes |-> "free"]
    /\ disc_pc = [n \in NmNodes |-> IF n = 1 THEN "poll" ELSE "off"]
    /\ disc_msg = [n \in NmNodes |-> NoMsg]
    /\ recv_pc = [n \in NmNodes |-> IF n = 1 THEN "poll" ELSE "off"]
    /\ recv_msg = [n \in NmNodes |-> NoMsg]
    /\ hb_pc = [n \in NmNodes |-> IF n = 1 THEN "sleep" ELSE "off"]
    /\ hb_todo = [n \in NmNodes |-> {}]
    /\ hb_due = [n \in NmNodes |-> FALSE]
    /\ nm_broadcasts = [n \in NmNodes |-> 0]
    /\ nm_gotAck = [n \in NmNodes |->
                      IF n = 1 THEN {PeerId(2, DEFAULT_DATA_PORT)} ELSE {}]
    /\ nm_gotStart = [n \in NmNodes |-> {}]
    /\ nm_timedout = [n \in NmNodes |-> {}]
    /\ nm_injected = 0
    /\ nm_rediscovered = [n \in NmNodes |-> {}]
    /\ nm_running = [n \in NmNodes |-> n = 1]
    /\ discovering = [n \in NmNodes |-> n = 1]
    /\ send_pc = [n \in NmNodes |-> IF n = 1 THEN "run" ELSE "off"]
    /\ stop_pc = [n \in NmNodes |-> "idle"]
    /\ nm_stopSent = [n \in NmNodes |-> <<>>]
    /\ nm_stopCalls = 0
    /\ HsInitFor({})
    /\ StreamIdle /\ errorCallback = FALSE /\ dataSentCallback = FALSE /\ CodecIdle
    /\ program = "udp_chat_node2" /\ RoleIdle /\ ExtraIdle

\* The session while the peer sends nothing to the data socket.
NextNetSession ==
    \/ DiscBroadcast(1)
    \/ handle_discovery_message(1)
    \/ initiate_handshake(1)
    \/ send_worker(1)
    \/ heartbeat_worker(1)
    \/ HbPush(1)
    \/ Tick
    \/ EnvDiscovery(1)

SpecNetSession == InitNetSession /\ [][NextNetSession]_vars

\* The same node within the first heartbeat interval after start(); stop() may
\* be called on it at any moment.
NextNetStop ==
    \/ DiscBroadcast(1)
    \/ handle_discovery_message(1)
    \/ initiate_handshake(1)
    \/ handle_incoming_message(1)
    \/ handle_handshake_start(1)
    \/ handle_handshake_ack(1)
    \/ mark_peer_connected(1)
    \/ handle_disconnect(1)
    \/ send_worker(1)
    \/ PeerTraffic(1)
    \/ stop(1)
    \/ broadcast_disconnect(1)
    \/ StopJoin(1)
    \/ StopClose(1)
    \/ DiscExit(1)
    \/ RecvExit(1)
    \/ SendExit(1)
    \/ HbExit(1)

SpecNetStop == InitNet /\ [][NextNetStop]_vars

\* The same node receiving arbitrary bytes on its data socket.
NextNetRaw ==
    \/ EnvRaw(1)
    \/ receive_worker(1)
    \/ handle_handshake_start(1)
    \/ handle_handshake_ack(1)
    \/ mark_peer_connected(1)
    \/ handle_disconnect(1)
    \/ send_worker(1)

SpecNetRaw == InitNet /\ [][NextNetRaw]_vars

\* Fair scheduling of all worker threads: a worker that can take its next
\* step (its datagram is there, its mutex is free) eventually takes it.
NetPairFairness ==
    \A n \in NmNodes :
        /\ WF_vars(DiscBroadcast(n))
        /\ WF_vars(handle_discovery_message(n))
        /\ WF_vars(initiate_handshake(n))
        /\ WF_vars(handle_incoming_message(n))
        /\ WF_vars(handle_handshake_start(n))
        /\ WF_vars(handle_handshake_ack(n))
        /\ WF_vars(mark_peer_connected(n))
        /\ WF_vars(send_worker(n))

FairSpecNetPair == SpecNetPair /\ NetPairFairness

\* One VRDataStreamer: just constructed, or after a successful initialize(),
\* or in a session that has been streaming for long.  The error callback is set or not.
InitStream ==
    /\ \/ StreamIdle /\ (StreamerFresh \/ StreamerReady)
       \/ StreamLongRunning /\ StreamerReady
    /\ errorCallback \in BOOLEAN /\ dataSentCallback \in BOOLEAN
    /\ HsInitFor({}) /\ NmInitFor({}) /\ CodecIdle
    /\ program = "udp_chat_node2" /\ RoleIdle /\ LaterIdle

NextStream ==
    \/ initialize
    \/ setConfig
    \/ startStreaming
    \/ stopStreaming
    \/ stopStreamingReturn
    \/ sendFrame
    \/ StreamWake
    \/ StreamExit

SpecStream == InitStream /\ [][NextStream]_vars

\* One packet serialized by a sender and deserialized by a receiver.
InitCodec ==
    /\ cd_pc = "new"
    /\ m_packet \in Packets
    /\ cd_data = <<>>
    /\ cd_cut = "intact"
    /\ cd_result = <<>>
    /\ HsInitFor({}) /\ NmInitFor({})
    /\ StreamIdle /\ errorCallback = FALSE /\ dataSentCallback = FALSE
    /\ program = "udp_chat_node2" /\ RoleIdle /\ ExtraIdle

NextCodec ==
    \/ CdSerialize
    \/ CdTruncate
    \/ CdCorruptMagic
    \/ CdDeserialize

SpecCodec == InitCodec /\ [][NextCodec]_vars

\* One role-based node process from the start of main on, running any of the
\* three programs; the peer and other hosts send what they like.
InitRole ==
    /\ program \in Programs
    /\ RoleStarted /\ ExtraIdle
    /\ HsInitFor({}) /\ NmInitFor({})
    /\ StreamIdle /\ errorCallback = FALSE /\ dataSentCallback = FALSE /\ CodecIdle

NextRole ==
    \/ RbEnvDiscovery
    \/ RbBcastTick
    \/ RbDiscIteration
    \/ RbMainWait
    \/ HsSendStep(1)
    \/ HsRecvStep(1)
    \/ RbEnvHandshake
    \/ RbMainAfterHandshake
    \/ RbEnvChat
    \/ RbReceive
    \/ RbKaTick
    \/ RbKeepalive
    \/ RbUserInput

SpecRole == InitRole /\ [][NextRole]_vars

\* Every thread of the process that can take a step eventually takes it; the
\* clock goes on.  Nothing is assumed about other hosts or the user.
RoleFairness ==
    /\ WF_vars(RbBcastTick)
    /\ WF_vars(RbDiscIteration)
    /\ WF_vars(RbMainWait)
    /\ WF_vars(HsSendStep(1))
    /\ WF_vars(HsRecvStep(1))
    /\ WF_vars(RbMainAfterHandshake)
    /\ WF_vars(RbReceive)
    /\ WF_vars(RbKaTick)
    /\ WF_vars(RbKeepalive)

FairSpecRole == SpecRole /\ RoleFairness

\* The connected datastreamer and its command channel.
InitCommand ==
    /\ RoleConnected /\ ExtraIdle
    /\ HsInitFor({}) /\ NmInitFor({})
    /\ StreamIdle /\ errorCallback = FALSE /\ dataSentCallback = FALSE /\ CodecIdle

NextCommand ==
    \/ CmdEnv
    \/ dataReceiveThread

SpecCommand == InitCommand /\ [][NextCommand]_vars

\* A role-based node that receives whatever other hosts send: udp_chat_node2
\* in discovery, or a connected udp_chat_node2 / aimlab_vr_datastreamer.
InitMalformed ==
    /\ \/ program = "udp_chat_node2" /\ RoleStarted
       \/ /\ program \in {"udp_chat_node2", "aimlab_vr_datastreamer"}
          /\ running = TRUE
          /\ peer_discovered = TRUE
          /\ peer_address = "peerhost"
          /\ peer_port = 50002
          /\ handshake_complete = TRUE
          /\ rb_main = "chat"
          /\ rb_disc = "stopped"
          /\ discover_sock = <<>>
          /\ bcast_due = FALSE
          /\ ka_due = FALSE
          /\ rb_send = "check"
          /\ rb_iter = FALSE
          /\ rb_handled = NoDgram
          /\ rb_out = <<>>
    /\ ExtraIdle
    /\ HsInitFor({}) /\ NmInitFor({})
    /\ StreamIdle /\ errorCallback = FALSE /\ dataSentCallback = FALSE /\ CodecIdle

NextMalformed ==
    \/ MfEnvDiscovery
    \/ RbBcastTick
    \/ discoveryThread
    \/ MfEnvChat
    \/ receiveThread

SpecMalformed == InitMalformed /\ [][NextMalformed]_vars

\* A second-generation node whose discovery thread could bind no discovery
\* port, and its peer.
InitSendOnly ==
    /\ program \in {"udp_chat_node1_v2", "aimlab_vr_datastreamer"}
    /\ running = TRUE
    /\ peer_discovered = FALSE
    /\ peer_address = ""
    /\ peer_port = 0
    /\ handshake_complete = FALSE
    /\ rb_main = "wait_discovery"
    /\ rb_disc = "broadcast_only"
    /\ discover_sock = <<>>
    /\ bcast_due = FALSE
    /\ ka_due = FALSE
    /\ rb_send = "check"
    /\ rb_iter = FALSE
    /\ rb_handled = NoDgram
    /\ rb_out = <<>>
    /\ ExtraIdle
    /\ HsInitFor({}) /\ NmInitFor({})
    /\ StreamIdle /\ errorCallback = FALSE /\ dataSentCallback = FALSE /\ CodecIdle

NextSendOnly ==
    \/ discoveryBroadcastOnly
    \/ PeerDiscovers
    \/ PeerBroadcasts

SpecSendOnly == InitSendOnly /\ [][NextSendOnly]_vars

\* One connected NetworkManager, its receive thread and its owner.
InitReceive ==
    /\ RxConnected
    /\ HsInitFor({}) /\ NmInitFor({}) /\ CodecIdle
    /\ StreamIdle /\ errorCallback = FALSE /\ dataSentCallback = FALSE
    /\ program = "udp_chat_node2" /\ RoleIdle
    /\ CmdIdle /\ StreamerFresh /\ LogIdle /\ TimeIdle /\ RaceIdle /\ LossIdle
    /\ SendOnlyIdle

NextReceive ==
    \/ startReceiving
    \/ RxLoopTest
    \/ RxReceive
    \/ RxEnvSend
    \/ RxTick
    \/ stopReceiving
    \/ disconnect
    \/ Destructor
    \/ RxJoinReturn

SpecReceive == InitReceive /\ [][NextReceive]_vars

\* The Logger singleton of a process, used by one thread.
InitLogger ==
    /\ HsInitFor({}) /\ NmInitFor({}) /\ CodecIdle
    /\ StreamIdle /\ errorCallback = FALSE /\ dataSentCallback = FALSE
    /\ program = "udp_chat_node2" /\ RoleIdle /\ ExtraIdle

NextLogger ==
    \/ Logger_initialize
    \/ Logger_log
    \/ Logger_shutdown

SpecLogger == InitLogger /\ [][NextLogger]_vars

\* One streaming session at 100 Hz with a transport that takes every packet.
InitTimed ==
    /\ TimeStarted
    /\ StreamStarted /\ errorCallback \in BOOLEAN /\ dataSentCallback = FALSE
    /\ StreamerReady
    /\ HsInitFor({}) /\ NmInitFor({}) /\ CodecIdle
    /\ program = "udp_chat_node2" /\ RoleIdle
    /\ CmdIdle /\ RxIdle /\ LogIdle /\ RaceIdle /\ LossIdle /\ SendOnlyIdle

NextTimed ==
    \/ TimedFrameStart
    \/ TimedFrameDone
    \/ TimedWake
    \/ TimeTick

SpecTimed == InitTimed /\ [][NextTimed]_vars

\* The same session when some frames take a period or more.
NextOverrun ==
    \/ NextTimed
    \/ TimedSlowFrameStart

SpecOverrun == InitTimed /\ [][NextOverrun]_vars

\* One streaming session during which the application also calls sendFrame.
InitRace ==
    /\ StreamStarted /\ errorCallback \in BOOLEAN /\ dataSentCallback \in BOOLEAN
    /\ StreamerReady
    /\ HsInitFor({}) /\ NmInitFor({}) /\ CodecIdle
    /\ program = "udp_chat_node2" /\ RoleIdle /\ LaterIdle

NextRace ==
    \/ \E c \in Callers : SfLoadSeq(c)
    \/ \E c \in Callers : SfStoreSeqAndSend(c)
    \/ \E c \in Callers : SfLoadTotal(c)
    \/ \E c \in Callers : SfStoreTotal(c)

SpecRace == InitRace /\ [][NextRace]_vars

(***************************************************************************)
(* Claims                                                                  *)
(***************************************************************************)

\* C1: performHandshake returns true only if during the call it received a
\* READY and received a HANDSHAKE to which it replied READY; when the
\* datagrams it received were only HANDSHAKEs, only READYs, or none, it
\* returns false and has used up the whole retry budget.
C1_HandshakeNeedsBoth ==
    \A n \in HsNodes :
        /\ hs_result[n] = "true" =>
               /\ MSG_READY \in hs_seen[n]
               /\ MSG_HANDSHAKE \in hs_seen[n]
               /\ hs_readyCount[n] >= 1
        /\ (hs_pc[n] = "done" /\ (hs_seen[n] \subseteq {MSG_HANDSHAKE}
                                   \/ hs_seen[n] \subseteq {MSG_READY})) =>
               /\ hs_result[n] = "false"
               /\ attempts[n] = MaxAttempts

\* C1 witness: a call that returned true, having been fed both kinds.
C1_Witness ==
    /\ hs_result[1] = "true"
    /\ {MSG_READY, MSG_HANDSHAKE} \subseteq hs_seen[1]

\* C3: two nodes running performHandshake against each other never end with
\* one side returning true and the other returning false.
C3_MutualOutcome ==
    ~ \E n \in HsNodes :
          hs_result[n] = "true" /\ hs_result[HsPeer(n)] = "false"

\* Node n has node p's record in peers with is_connected = true.
NmConnected(n, p) ==
    /\ PeerId(p, DEFAULT_DATA_PORT) \in DOMAIN peers[n]
    /\ peers[n][PeerId(p, DEFAULT_DATA_PORT)].is_connected

\* C4: two instances started with discovery enabled, no datagram lost and all
\* workers scheduled fairly: eventually each has the other recorded in peers
\* with is_connected = true.
C4_BothReachConnected == <>(NmConnected(1, 2) /\ NmConnected(2, 1))

\* C2: a peer is marked connected only after both directions were confirmed:
\* its HANDSHAKE_ACK has been received and its HANDSHAKE_START has been
\* received and answered.
C2_ConnectedNeedsBothDirections ==
    \A n \in NmNodes : \A id \in DOMAIN peers[n] :
        peers[n][id].is_connected =>
            id \in nm_gotAck[n] /\ id \in nm_gotStart[n]

\* This step is a step of node n's liveness sweep (heartbeat_worker's for loop).
SweepStep(n) ==
    \/ hb_pc[n] = "sleep" /\ hb_due[n] /\ ~hb_due'[n]
    \/ hb_pc[n] = "push" /\ hb_todo'[n] # hb_todo[n]

\* The peers this sweep step has gone past.
SweepVisited(n) ==
    (IF hb_pc[n] = "sleep" THEN DOMAIN peers[n] ELSE hb_todo[n]) \ hb_todo'[n]

\* C5: a connected peer stops being connected (its record staying in the map)
\* only in a sweep step and only if its last_heartbeat is more than
\* CONNECTION_TIMEOUT_MS old; and every connected peer the sweep goes past
\* whose last_heartbeat is that old is marked not connected.
C5_SweepEvictsExactlyStale ==
    [][\A n \in NmNodes : \A id \in DOMAIN peers[n] :
          LET stale == now - peers[n][id].last_heartbeat > CONNECTION_TIMEOUT_MS
          IN  /\ (/\ peers[n][id].is_connected
                  /\ id \in DOMAIN peers'[n]
                  /\ ~peers'[n][id].is_connected) => (stale /\ SweepStep(n))
              /\ (/\ SweepStep(n)
                  /\ id \in SweepVisited(n)
                  /\ peers[n][id].is_connected
                  /\ stale) => ~peers'[n][id].is_connected
      ]_vars

\* C5 witness: the sweep has evicted a stale peer while another peer, refreshed
\* after it was created, is still connected.
C5_Witness ==
    /\ \E id \in nm_timedout[1] :
           /\ id \in DOMAIN peers[1]
           /\ ~peers[1][id].is_connected
           /\ now - peers[1][id].last_heartbeat > CONNECTION_TIMEOUT_MS
    /\ \E id \in DOMAIN peers[1] :
           /\ peers[1][id].is_connected
           /\ peers[1][id].last_heartbeat > 0
           /\ now - peers[1][id].last_heartbeat <= CONNECTION_TIMEOUT_MS

\* This step is node n's handle_discovery_message taking the datagram at the
\* head of its discovery socket.
DiscHandled(n) ==
    /\ disc_pc[n] = "poll"
    /\ discovery_socket[n] # <<>>
    /\ peers_mutex[n] = "free"
    /\ discovery_socket'[n] # discovery_socket[n]
    /\ nm_broadcasts' = nm_broadcasts
    /\ nm_injected' = nm_injected

\* C6: a DISCOVER handled from a peer that the sweep has timed out creates a
\* fresh record (not connected, last_heartbeat = now) and starts a handshake.
C6_RediscoveryAfterTimeout ==
    [][\A n \in NmNodes :
          (/\ DiscHandled(n)
           /\ Head(discovery_socket[n]).type = "DISCOVER"
           /\ PeerId(Head(discovery_socket[n]).from,
                     Head(discovery_socket[n]).port) \in nm_timedout[n])
          => LET id == PeerId(Head(discovery_socket[n]).from,
                              Head(discovery_socket[n]).port)
             IN  /\ id \in DOMAIN peers'[n]
                 /\ peers'[n][id].last_heartbeat = now
                 /\ disc_pc'[n] = "initiate"
      ]_vars

\* y is x + 1 modulo 2^32 (on 16-bit halves).
IsSucc32(x, y) ==
    IF x[2] < Half - 1 THEN y = <<x[1], x[2] + 1>>
    ELSE IF x[1] < Half - 1 THEN y = <<x[1] + 1, 0>>
    ELSE y = <<0, 0>>

\* C7: the first packet built after startStreaming carries sequence number 0,
\* each following packet of the session the previous number plus 1 modulo
\* 2^32 (also after a failed send), and sendFrame returns false for a built
\* packet only if the transport refused it (so not because of the wrap).
C7_SequenceNumbers ==
    /\ (st_fresh /\ st_log # <<>>) => st_log[1].seq = <<0, 0>>
    /\ \A i \in 1..(Len(st_log) - 1) : IsSucc32(st_log[i].seq, st_log[i + 1].seq)
    /\ \A i \in 1..Len(st_log) : st_log[i].ret = st_log[i].sent

\* C7 witness: a packet numbered 2^32 - 1 whose send failed is followed by a
\* packet numbered 0 that sendFrame sent successfully.
C7_Witness ==
    \E i \in 1..(Len(st_log) - 1) :
        /\ st_log[i].seq = <<65535, 65535>>
        /\ ~st_log[i].sent
        /\ st_log[i + 1].seq = <<0, 0>>
        /\ st_log[i + 1].ret

\* This step is a sendFrame whose networkManager->send failed.
SendFailed ==
    /\ Len(st_log') = Len(st_log) + 1
    /\ ~st_log'[Len(st_log')].sent

\* C8: a failed send invokes the error callback (if set) exactly once, leaves
\* isStreaming and totalPacketsSent as they are and leaves the thread in its
\* loop (in the 100 ms sleep, from which it goes back to the loop head); the
\* thread leaves the loop only after stopStreaming has been called.
C8_SendFailureKeepsLoop ==
    [][/\ SendFailed =>
             /\ st_errCalls' = st_errCalls + (IF errorCallback THEN 1 ELSE 0)
             /\ isStreaming' = isStreaming
             /\ totalPacketsSent' = totalPacketsSent
             /\ st_pc' = "sleepErr"
       /\ st_pc = "sleepErr" => st_pc' \in {"sleepErr", "loop"}
       /\ (st_pc # "none" /\ st_pc' = "none") => st_stopCalled
      ]_vars

\* C8 witness: still streaming, the error callback has been invoked for a
\* failed send and the loop has attempted another frame since.
C8_Witness ==
    /\ isStreaming
    /\ st_errCalls = 1
    /\ Len(st_log) >= 2
    /\ ~st_log[1].sent
    /\ st_pc = "loop"

\* C9: deserializing the unmodified output of serialize returns true and
\* yields the same sequence number, timestamp, device count and, device by
\* device in order, the same fields (floats as bit patterns), reading no index
\* beyond the buffer.
C9_BinaryRoundTrip ==
    (cd_pc = "done" /\ cd_cut = "intact") =>
        /\ cd_result.ret = "true"
        /\ ~cd_result.oob
        /\ cd_result.packet.seq = m_packet.seq
        /\ cd_result.packet.ts = m_packet.ts
        /\ Len(cd_result.packet.devices) = Len(m_packet.devices)
        /\ \A i \in 1..Len(m_packet.devices) :
              cd_result.packet.devices[i] = m_packet.devices[i]

\* C9 witness: a packet with two different devices and a sequence number
\* using all four bytes went through serialize and deserialize.
C9_Witness ==
    /\ cd_pc = "done"
    /\ cd_cut = "intact"
    /\ cd_result.ret = "true"
    /\ m_packet.seq = <<258, 772>>
    /\ Len(m_packet.devices) = 2
    /\ m_packet.devices[1] # m_packet.devices[2]

\* C10: on a buffer with a wrong magic number or cut short anywhere,
\* deserialize returns false and reads no index at or beyond the buffer length.
C10_FailsClosed ==
    (cd_pc = "done" /\ cd_cut # "intact") =>
        /\ cd_result.ret = "false"
        /\ ~cd_result.oob

\* C11: a node's own looped-back DISCOVER or ACKNOWLEDGE never puts the node
\* itself into its peers map (so no handshake with itself, and it is never
\* reported by get_connected_peers).
C11_NoSelfPeer ==
    \A n \in NmNodes : PeerId(n, DEFAULT_DATA_PORT) \notin DOMAIN peers[n]

\* C14: handling a DISCOVER or ACKNOWLEDGE from a peer whose id is already in
\* peers changes nothing: the map is unchanged, no ACKNOWLEDGE is sent (every
\* discovery socket other than the reader's own is unchanged, the reader's
\* has lost its head), no HANDSHAKE_START is enqueued and no handshake begun.
C14_RediscoveryIdempotent ==
    [][\A n \in NmNodes :
          (/\ DiscHandled(n)
           /\ PeerId(Head(discovery_socket[n]).from,
                     Head(discovery_socket[n]).port) \in DOMAIN peers[n])
          => /\ peers'[n] = peers[n]
             /\ discovery_socket' =
                   [discovery_socket EXCEPT ![n] = Tail(discovery_socket[n])]
             /\ outgoing_messages' = outgoing_messages
             /\ data_socket' = data_socket
             /\ disc_pc'[n] = "poll"
             /\ peers_mutex'[n] = "free"
      ]_vars

\* C14 witness: a discovery datagram of the remote peer, already in peers and
\* connected, has been handled.
C14_Witness ==
    /\ PeerId(2, DEFAULT_DATA_PORT) \in nm_rediscovered[1]
    /\ PeerId(2, DEFAULT_DATA_PORT) \in DOMAIN peers[1]
    /\ peers[1][PeerId(2, DEFAULT_DATA_PORT)].is_connected

\* The HANDSHAKE datagrams sent match the attempts made while no READY had
\* been received: none is sent once handshake_sent is true.
C15_Helper_SentBounded(n) ==
    /\ attempts[n] <= MaxAttempts
    /\ hs_sentCount[n] <= MaxAttempts
    /\ hs_sentCount[n] <= attempts[n] + 1

\* C15: performHandshake makes at most 10 attempts and sends at most 10
\* HANDSHAKE datagrams; an attempt sends a HANDSHAKE exactly when no READY has
\* been received yet; when the budget ends without both confirmations the
\* call has returned false.
C15_HandshakeBounded ==
    [][\A n \in HsNodes :
          /\ C15_Helper_SentBounded(n)'
          /\ (hs_pc[n] = "send" /\ hs_pc'[n] = "recv") =>
                 (hs_sentCount'[n] = hs_sentCount[n] + 1 <=> ~handshake_sent[n])
          /\ (hs_pc'[n] = "done" /\ ~(handshake_sent'[n] /\ handshake_received'[n])) =>
                 (hs_result'[n] = "false" /\ attempts'[n] = MaxAttempts)
      ]_vars

\* C15 witness: a call that used the whole budget, sent 10 HANDSHAKEs and
\* returned false.
C15_Witness ==
    /\ hs_result[1] = "false"
    /\ attempts[1] = MaxAttempts
    /\ hs_sentCount[1] = MaxAttempts

\* A step that is one iteration of discoveryThread's loop.
DiscIterationStep == rb_iter' # rb_iter

\* What an iteration sent apart from its periodic DISCOVER broadcast.
Replies(out) == SelectSeq(out, LAMBDA dg : dg.to # "broadcast")

\* C12: an iteration of the role-based discoveryThread that received nothing,
\* or a datagram whose role id is not PEER_ID (its own looped-back broadcast
\* included), does not set peer_discovered and leaves peer_address and
\* peer_port as they were.
C12_OnlyPeerIdDiscovers ==
    [][(DiscIterationStep /\ rb_handled'.id # PEER_ID(program))
          => /\ peer_discovered' = FALSE
             /\ peer_address' = peer_address
             /\ peer_port' = peer_port
             /\ Replies(rb_out') = <<>>]_vars

\* The node has read its own looped-back DISCOVER and is still searching.
C12_Witness ==
    /\ rb_handled = OwnDiscover(program)
    /\ rb_disc = "loop"
    /\ ~peer_discovered
    /\ peer_address = ""

\* C13: an iteration that received a DISCOVER from PEER_ID, with the optional
\* fourth field or without it, sends exactly one ACK with the node's own role
\* id and data port to the sender and makes the node FOUND with the sender's
\* address and advertised port; one that received an ACK from PEER_ID makes
\* the node FOUND and sends nothing in reply.
C13_DiscoverIsAcked ==
    [][(DiscIterationStep /\ rb_handled'.id = PEER_ID(program))
          => /\ peer_discovered'
             /\ peer_address' = rb_handled'.from
             /\ peer_port' = rb_handled'.port
             /\ rb_handled'.type = MSG_DISCOVER =>
                   Replies(rb_out') = <<[type |-> MSG_ACKNOWLEDGE,
                                         id |-> NODE_ID(program),
                                         port |-> CHAT_PORT(program),
                                         to |-> rb_handled'.from]>>
             /\ rb_handled'.type = MSG_ACKNOWLEDGE => Replies(rb_out') = <<>>]_vars

\* C16: discovery is bounded: in every fair run either the peer is found or
\* main reaches its 'peer discovery failed' branch, so that without any answer
\* from a peer the failure is reported instead of broadcasting forever.
C16_DiscoveryGivesUp == <>(peer_discovered \/ rb_main = "discovery_failed")

\* C17: once main has seen performHandshake fail, the discovered peer is
\* discarded (peer_discovered, peer_address, peer_port back to their initial
\* values) and discovery runs again.
C17_FailedHandshakeRestartsDiscovery ==
    rb_main = "handshake_failed" =>
        /\ ~peer_discovered
        /\ peer_address = ""
        /\ peer_port = 0
        /\ running
        /\ rb_disc = "loop"

\* A step in which the receive thread of the connected node takes a KEEPALIVE
\* from its socket.
KeepaliveReceived ==
    /\ rb_main = "chat"
    /\ chat_sock[1] # <<>>
    /\ StartsWith(Head(chat_sock[1]), MSG_KEEPALIVE)
    /\ chat_sock'[1] = Tail(chat_sock[1])

\* C18: a step that receives a KEEPALIVE sends no datagram.
C18_KeepaliveNotAnswered ==
    [][KeepaliveReceived => rb_out' = <<>>]_vars

\* C19: whenever the heartbeat interval has gone by while the node is
\* connected, a KEEPALIVE is sent (or the node has been told to stop), whatever
\* the user and the peer do or do not do.
C19_KeepaliveKeepsFlowing ==
    (rb_main = "chat" /\ ka_due) ~> (~ka_due \/ ~running)

\* stop() has been called on node n and has returned.
StopReturned(n) == stop_pc[n] = "idle" /\ ~nm_running[n]

\* Every worker thread of node n has left its loop.
WorkersExited(n) ==
    /\ disc_pc[n] = "exited"
    /\ recv_pc[n] = "exited"
    /\ send_pc[n] = "exited"
    /\ hb_pc[n] = "exited"

\* C20: stop() goes through its steps in order: running and discovering are
\* false before anything else happens; then exactly one DISCONNECT is sent to
\* every peer that is connected at that moment and to no other; then all worker
\* threads are joined; only then are the sockets closed.  After stop() has
\* returned nothing is sent, received or changed by the node, and a further
\* stop() changes nothing.
C20_StopProtocol ==
    [][/\ stop_pc'[1] # "idle" => (~nm_running'[1] /\ ~discovering'[1])
       /\ stop_pc'[1] # stop_pc[1] =>
             <<stop_pc[1], stop_pc'[1]>> \in
                 {<<"idle", "disconnect">>, <<"disconnect", "join">>,
                  <<"join", "close">>, <<"close", "idle">>}
       /\ (stop_pc[1] = "disconnect" /\ stop_pc'[1] = "join") =>
             LET conn == {id \in DOMAIN peers[1] : peers[1][id].is_connected}
                 sent == nm_stopSent'[1]
             IN  /\ nm_stopSent[1] = <<>>
                 /\ Len(sent) = Cardinality(conn)
                 /\ \A id \in conn : \E i \in 1..Len(sent) : sent[i] = id
                 /\ Len(data_socket'[1]) =
                       Len(data_socket[1]) +
                          (IF PeerId(1, DEFAULT_DATA_PORT) \in conn THEN 1 ELSE 0)
       /\ nm_stopSent'[1] # nm_stopSent[1] => stop_pc[1] = "disconnect"
       /\ (stop_pc[1] = "join" /\ stop_pc'[1] = "close") => WorkersExited(1)
       /\ (recv_pc[1] # "off" /\ recv_pc'[1] = "off") =>
             (stop_pc[1] = "close" /\ WorkersExited(1))
       /\ (disc_pc[1] # "off" /\ disc_pc'[1] = "off") =>
             (stop_pc[1] = "close" /\ WorkersExited(1))
       /\ StopReturned(1) =>
             /\ recv_pc[1] = "off" /\ disc_pc[1] = "off"
             /\ send_pc[1] = "off" /\ hb_pc[1] = "off"
             /\ UNCHANGED <<discovery_socket, data_socket, peers,
                            incoming_messages, outgoing_messages, peers_mutex,
                            outgoing_mutex, nm_running, discovering, stop_pc,
                            nm_stopSent, disc_pc, recv_pc, send_pc, hb_pc>>]_vars

\* stop() has returned from a node whose remote peer was connected and got
\* the DISCONNECT, and a second stop() has been made.
C20_Witness ==
    /\ StopReturned(1)
    /\ nm_stopCalls = 2
    /\ \E i \in 1..Len(nm_stopSent[1]) : nm_stopSent[1][i] = PeerId(2, DEFAULT_DATA_PORT)
    /\ \E id \in DOMAIN peers[1] : ~peers[1][id].is_connected

\* A step in which the receive worker of node 1 takes a raw datagram from the
\* data socket.
RawReceived ==
    /\ recv_pc[1] = "poll"
    /\ data_socket[1] # <<>>
    /\ data_socket'[1] = Tail(data_socket[1])

\* The datagram is a well-formed envelope: '|' present, a number in front of
\* it, and that number is an enumerator of MessageType.
ValidEnvelope(d) ==
    /\ d.sep
    /\ d.field.kind = "number"
    /\ d.field.value \in 0..8

\* C21: a datagram that is not a well-formed envelope of a known type is
\* dropped: the receive worker goes on running, and nothing is added to
\* incoming_messages.
C21_GarbageDropped ==
    [][(RawReceived /\ ~ValidEnvelope(Head(data_socket[1]).raw))
          => /\ recv_pc'[1] # "terminated"
             /\ incoming_messages' = incoming_messages]_vars

\* A step in which dataReceiveThread takes a CMD datagram from the socket.
CommandReceived ==
    /\ rb_main = "chat"
    /\ chat_sock[1] # <<>>
    /\ Head(chat_sock[1]).kind = MSG_COMMAND
    /\ chat_sock'[1] = Tail(chat_sock[1])

\* C22: every CMD datagram received is answered with exactly one STATUS
\* datagram to the peer; for a sub-opcode that is none of OPEN_FILE,
\* CLOSE_FILE, GET_STATUS, SHUTDOWN the answer is STATUS:UNKNOWN_COMMAND and
\* file_open, running, data_count and file_count stay as they are.
C22_CommandsAnswered ==
    [][CommandReceived =>
          /\ Len(rb_out') = 1
          /\ rb_out'[1].type = MSG_STATUS
          /\ rb_out'[1].to = "peer"
          /\ Head(chat_sock[1]).payload.cmd_type \notin
                {"OPEN_FILE", "CLOSE_FILE", "GET_STATUS", "SHUTDOWN"} =>
                /\ rb_out'[1].id = "UNKNOWN_COMMAND"
                /\ UNCHANGED <<file_open, running, data_count, file_count>>]_vars

\* An unknown sub-opcode has been answered while a file with data was open.
C22_Witness ==
    /\ rb_out = <<[type |-> MSG_STATUS, id |-> "UNKNOWN_COMMAND", port |-> 0,
                   to |-> "peer"]>>
    /\ file_open
    /\ data_count > 0
    /\ running

\* This step is a call of startStreaming.
StartCall == st_sessions' = st_sessions + 1

\* The fields a refused startStreaming must not touch.
SessionUntouched ==
    UNCHANGED <<isStreaming, shouldStop, st_pc, sequenceNumber,
                totalPacketsSent, st_log>>

\* C23: startStreaming returns true only when some initialize has succeeded,
\* the network is Connected and no session is running; called while
\* streaming it returns false and leaves the thread, the sequence number and
\* totalPacketsSent as they are; called before a successful initialize or
\* while the network is not Connected it returns false and isStreaming stays
\* false; a thread is created only when none exists.
C23_StartStreamingGuards ==
    [][StartCall =>
          /\ start_ret' => /\ init_succeeded
                           /\ status = "Connected"
                           /\ ~isStreaming
                           /\ st_pc = "none"
          /\ isStreaming => (~start_ret' /\ SessionUntouched)
          /\ (~init_succeeded \/ status # "Connected") =>
                 (~start_ret' /\ isStreaming' = isStreaming /\ SessionUntouched)
          /\ (st_pc # "none") => st_pc' = st_pc
      ]_vars

\* C23 witness: in a session started in this run, with a frame sent, a
\* second startStreaming has returned false.
C23_Witness ==
    /\ isStreaming
    /\ st_fresh
    /\ st_sessions = 2
    /\ ~start_ret
    /\ Len(st_log) > 0

\* This step is a call of stopStreaming.
StopCall == stop_calls' = stop_calls + 1

\* No frame is produced or sent in this step.
NoFrame ==
    UNCHANGED <<st_frames, st_log, totalPacketsSent, sequenceNumber>>

\* C24: when stopStreaming returns the streaming thread has exited and
\* isStreaming is false, and from then on no frame is sent before the next
\* startStreaming call; stopStreaming when not streaming changes nothing; a
\* startStreaming after a stopStreaming (network still Connected) returns true
\* and begins with sequence number 0 and totalPacketsSent 0.
C24_StopThenRestart ==
    [][/\ (app_pc = "join" /\ app_pc' = "idle") =>
              (st_pc' = "none" /\ ~isStreaming')
       /\ (app_pc = "idle" /\ ~isStreaming) =>
              (st_pc = "none" /\ (StartCall \/ NoFrame))
       /\ (StopCall /\ ~isStreaming) =>
              UNCHANGED <<streamVars, vrDevice, networkManager, status, app_pc>>
       /\ (StartCall /\ st_stopCalled /\ ~isStreaming /\ status = "Connected") =>
              /\ start_ret'
              /\ isStreaming'
              /\ st_pc' = "loop"
              /\ sequenceNumber' = Zero32
              /\ totalPacketsSent' = 0
      ]_vars

\* C24 witness: a second session, started after the first was stopped with
\* packets sent, has built its first packet, numbered 0, and the transport
\* has taken it.
C24_Witness ==
    /\ starts_ok = 2
    /\ stop_calls >= 1
    /\ isStreaming
    /\ st_frames >= 2
    /\ Len(st_log) = 1
    /\ st_log[1].seq = Zero32
    /\ totalPacketsSent = 1

\* C25: a receive call with nothing arriving returns within its timeout (the
\* thread is never found inside receive after more than one timeout's worth
\* of time), so that a caller waiting in join for the receive thread is not
\* kept waiting by it.
C25_ReceiveHonoursTimeout ==
    rx_pc = "recvfrom" => rx_waited <= 1

\* C26: every Logger::initialize call returns with the logger initialized and
\* m_mutex released, for every minimum level and also on an initialized
\* logger.
C26_InitializeReturns ==
    [][lg_inits' = lg_inits + 1 =>
          (lg_pc' = "idle" /\ m_initialized' /\ m_mutex' = "free")]_vars

\* Whole periods gone by since the thread took its first nextFrameTime.
ElapsedPeriods == (clock - startTime) \div frameDuration

\* C27: at 100 Hz, with sends that succeed and frames that take less than a
\* period, after k elapsed periods totalPacketsSent is k or k + 1: one frame
\* per period, without drift.
C27_OneFramePerPeriod ==
    totalPacketsSent \in {ElapsedPeriods, ElapsedPeriods + 1}

\* C27 witness: four periods have gone by, the fifth frame has been sent, and
\* the thread sleeps until a frame time that is still a whole number of
\* periods from the start.
C27_Witness ==
    /\ ElapsedPeriods = 4
    /\ totalPacketsSent = 5
    /\ tm_pc = "sleep_until"
    /\ nextFrameTime = startTime + 5 * frameDuration
    /\ clock > startTime + 4 * frameDuration

\* On node n the discovery worker holds peers_mutex and waits for
\* outgoing_mutex (in initiate_handshake) while the receive worker holds
\* outgoing_mutex and waits for peers_mutex (in mark_peer_connected).
MutexCycle(n) ==
    /\ disc_pc[n] = "initiate"
    /\ peers_mutex[n] = "disc"
    /\ recv_pc[n] = "mark"
    /\ outgoing_mutex[n] = "recv"

\* C28: no node ever has two workers each holding one of peers_mutex and
\* outgoing_mutex and waiting for the other (so every mutex request is
\* granted in the end and stop() can join the workers).
C28_NoMutexDeadlock ==
    \A n \in NmNodes : ~MutexCycle(n)

\* The packets of the session that the transport has taken.
SuccessfulSends == {i \in 1..Len(st_log) : st_log[i].sent}

\* C29: with the application calling sendFrame during a session, no two
\* packets handed to the transport carry the same sequence number, and once
\* no call is in progress totalPacketsSent is the number of successful sends.
C29_UniqueSequenceNumbers ==
    /\ \A i, j \in 1..Len(st_log) : i # j => st_log[i].seq # st_log[j].seq
    /\ (\A c \in Callers : sf_pc[c] = "idle") =>
           totalPacketsSent = Cardinality(SuccessfulSends)

\* Every datagram and queued message has been handled, no worker is inside a
\* handler, and every DISCOVER broadcast of the run has been made.
NetSettled ==
    /\ NetQuiet
    /\ \A n \in NmNodes : nm_broadcasts[n] = MaxBroadcasts

\* C30: the loss of one HANDSHAKE_START or HANDSHAKE_ACK is made up for by a
\* further HANDSHAKE_START: when the network has settled after such a loss,
\* the two nodes have each other connected.
C30_LostHandshakeRetried ==
    (nm_lost = 1 /\ NetSettled) => (NmConnected(1, 2) /\ NmConnected(2, 1))

\* This step is the deadline comparison that follows a successful sendFrame.
DeadlineCompared == tm_pc = "sendFrame" /\ tm_pc' # "sendFrame"

\* C31: a deadline comparison that finds the clock at or past nextFrameTime
\* sets nextFrameTime to the clock, so nextFrameTime never lags the clock
\* after a successful tick; and the frame that follows such a reset, if it
\* takes less than a period, is followed by a sleep (no burst of frames).
C31_OverrunShedsLoad ==
    [][DeadlineCompared =>
          /\ nextFrameTime' >= clock
          /\ (nextFrameTime + frameDuration <= clock) =>
                 (nextFrameTime' = clock /\ tm_pc' = "loop")
          /\ (tm_behind /\ tm_cost < frameDuration) => tm_pc' = "sleep_until"
      ]_vars

\* C31 witness: a frame overran by more than two periods, the frame after the
\* reset was sent, and the thread sleeps until one period after that reset.
C31_Witness ==
    /\ tm_pc = "sleep_until"
    /\ ~tm_behind
    /\ totalPacketsSent = 2
    /\ clock - startTime > 2 * frameDuration
    /\ nextFrameTime > startTime + 3 * frameDuration

\* The sequence numbers of the packets of this session whose send succeeded.
SentNumbers == {st_log[i].seq : i \in SuccessfulSends}

\* C32: in a session totalPacketsSent never decreases and changes by one at
\* a time, never exceeds the number of sequence numbers assigned, equals the
\* number of successful sends whenever no sendFrame call is in progress, and
\* dataSentCallback (if set) is invoked once per increment, with a packet
\* that was sent.
C32_CounterFollowsSends ==
    [][(st_fresh /\ st_sessions' = st_sessions) =>
          /\ totalPacketsSent' \in {totalPacketsSent, totalPacketsSent + 1}
          /\ totalPacketsSent' <= Len(st_log')
          /\ (\A c \in Callers : sf_pc'[c] = "idle") =>
                 totalPacketsSent' = Cardinality(SuccessfulSends)'
          /\ Len(st_sentCalls') - Len(st_sentCalls) =
                 IF dataSentCallback THEN totalPacketsSent' - totalPacketsSent
                                     ELSE 0
          /\ \A i \in 1..Len(st_sentCalls') : st_sentCalls'[i] \in SentNumbers'
      ]_vars

\* The deviceCount field of the header of the buffer handed to deserialize.
DeclaredCount == readUint32(cd_data, 18, 0)

\* C33: when deserialize returns true the packet holds as many devices as
\* the header declares and the buffer is 22 + 53 * deviceCount bytes long; a
\* buffer that ends at a record boundary before the declared count is
\* rejected.
C33_DeclaredLengthChecked ==
    cd_pc = "done" =>
        /\ cd_result.ret = "true" =>
               /\ DeclaredCount = <<0, Len(cd_result.packet.devices)>>
               /\ Len(cd_data) =
                      HEADER_SIZE + DEVICE_SIZE * Len(cd_result.packet.devices)
        /\ (\E n \in 0..MaxDevices :
               /\ Len(cd_data) = HEADER_SIZE + DEVICE_SIZE * n
               /\ LessThan32(n, DeclaredCount))
           => cd_result.ret = "false"

\* C34: no datagram ends a worker loop of a role-based node: after a
\* DISCOVER or ACK of the expected role with a missing or non-numeric port
\* field, and after a bare CHAT, CMD or DATA, the discovery thread and the
\* receive threads still run and the process is alive.
C34_MalformedDiscarded ==
    /\ rb_main # "terminated"
    /\ rb_disc # "terminated"

\* A capacity smaller than the number of datagrams a run delivers.
QueueCapacity == MaxEnvMsgs - 1

\* C35: the lengths of incoming_messages and outgoing_messages never exceed
\* a fixed capacity, however many DATA datagrams arrive with no get_message
\* call and however many messages are enqueued while the send worker waits.
C35_QueuesBounded ==
    \A n \in NmNodes :
        /\ Len(incoming_messages[n]) <= QueueCapacity
        /\ Len(outgoing_messages[n]) <= QueueCapacity

\* Node n's peers map holds a connected peer.
HasConnectedPeer(n) == \E id \in DOMAIN peers[n] : peers[n][id].is_connected

\* A role-based node that has found its peer sends no DISCOVER and leaves
\* peer_address and peer_port alone.
DiscoveryStopped ==
    peer_discovered =>
        /\ peer_address' = peer_address
        /\ peer_port' = peer_port
        /\ rb_out' # rb_out =>
               \A i \in 1..Len(rb_out') : rb_out'[i].type # MSG_DISCOVER

\* C36: discovery stops once the peer is found and does not run during a
\* session: the role-based discovery thread sends no DISCOVER and changes
\* neither peer_address nor peer_port after peer_discovered is set, and the
\* discovery worker of AIMLAB::NetworkManager broadcasts no DISCOVER while a
\* peer is connected.
C36_NoDiscoveryInSession ==
    [][/\ DiscoveryStopped
       /\ \A n \in NmNodes :
             HasConnectedPeer(n) => nm_broadcasts'[n] = nm_broadcasts[n]
      ]_vars

\* C37: a node in broadcast-only mode still pairs with a peer that can
\* receive: once the peer has found the node and sent its ACK, the node has
\* peer_discovered set, or a datagram of the peer waits on a socket that the
\* node's discovery thread reads.
C37_SendOnlyStillPairs ==
    so_peerFound => (peer_discovered \/ discover_sock # <<>>)

\* C38: handling a DISCONNECT from ip:port removes exactly the record with
\* that peer id: in the step that dispatches it (which refreshes only the
\* sender's heartbeat) and in the step of handle_disconnect every other
\* record of peers is unchanged, incoming_messages and outgoing_messages are
\* unchanged, and with no record of the sender peers is unchanged.
C38_DisconnectRemovesOne ==
    [][\A n \in NmNodes :
          LET dispatched == /\ recv_pc[n] = "poll"
                            /\ recv_pc'[n] = "dispatch"
                            /\ recv_msg'[n].type = "DISCONNECT"
              erased     == /\ recv_pc[n] = "dispatch"
                            /\ recv_msg[n].type = "DISCONNECT"
                            /\ recv_pc'[n] = "poll"
              id         == IF erased THEN recv_msg[n].from ELSE recv_msg'[n].from
          IN  (dispatched \/ erased) =>
                 /\ DOMAIN peers'[n] =
                       IF erased THEN DOMAIN peers[n] \ {id} ELSE DOMAIN peers[n]
                 /\ \A k \in DOMAIN peers'[n] \ {id} : peers'[n][k] = peers[n][k]
                 /\ incoming_messages' = incoming_messages
                 /\ outgoing_messages' = outgoing_messages
                 /\ id \notin DOMAIN peers[n] => peers' = peers
      ]_vars

\* C38 witness: the peer on host 2 had been discovered (the HANDSHAKE_START
\* for it is still queued) and its record is gone without a timeout, while
\* the map holds another record.
C38_Witness ==
    /\ \E i \in 1..Len(outgoing_messages[1]) :
          outgoing_messages[1][i] =
              [type |-> "HANDSHAKE_START", to |-> PeerId(2, DEFAULT_DATA_PORT)]
    /\ PeerId(2, DEFAULT_DATA_PORT) \notin DOMAIN peers[1]
    /\ PeerId(2, DEFAULT_DATA_PORT) \notin nm_timedout[1]
    /\ DOMAIN peers[1] # {}
    /\ recv_pc[1] = "poll"

\* C39: performHandshake takes confirmations only from the discovered peer:
\* the iteration whose recvfrom returns a datagram from another sender
\* address sets neither handshake_sent nor handshake_received and sends no
\* READY.
C39_OnlyPeerConfirms ==
    [][\A n \in HsNodes :
          (/\ hs_pc[n] = "recv"
           /\ hs_pc'[n] # "recv"
           /\ chat_sock[n] # <<>>
           /\ Head(chat_sock[n]).from # "peer")
          => /\ handshake_sent'[n] = handshake_sent[n]
             /\ handshake_received'[n] = handshake_received[n]
             /\ hs_readyCount'[n] = hs_readyCount[n]
      ]_vars

\* C40: whenever startStreaming succeeds the stored configuration has
\* 1 <= updateRate <= 1000, so the streaming thread never divides by an
\* update rate of 0: neither setConfig nor an initialize call that fails
\* validation leaves an invalid rate behind.
C40_ValidRateWhenStarted ==
    [][starts_ok' = starts_ok + 1 => Config_validate(m_config)]_vars

=============================================================================
